---------------------------- MODULE Spec2Model ----------------------------
(***************************************************************************)
(* A model of the food-delivery simulator's economy engine.                *)
(*                                                                         *)
(* Money is kept in cents (1 coin = 100 cents) and every float of the      *)
(* source is an exact decimal here; the inputs are chosen so that every    *)
(* quotient the code takes of a balance is exact.  An average cost is a    *)
(* fraction <<numerator, denominator>> of cents in lowest terms.           *)
(*                                                                         *)
(* The PlayerState instances live in `heap`; every subsystem holds a       *)
(* reference (an index of heap) to the instance it was constructed with.   *)
(***************************************************************************)
EXTENDS Integers, Sequences, FiniteSets, TLC

VARIABLES
    heap,                 \* the GameState instances ever constructed
    session_gs,           \* GameGUI.game_state
    sim_gs,               \* GameGUI.delivery_simulator.game_state
    cust_gs,              \* GameGUI.customer_system.game_state
    pf_gs,                \* GameGUI.portfolio.game_state
    exp_gs,               \* GameGUI.expense_manager.game_state
    stock_positions,      \* InvestmentPortfolio.stock_positions (insertion order)
    transaction_history,  \* InvestmentPortfolio.transaction_history
    pf_result,            \* what the last portfolio call returned
    del_result,           \* what the last simulate_delivery returned
    del_drawn,            \* the random draws the last simulate_delivery made
    consecutive_losses,   \* LotterySystem.consecutive_losses
    lot_result,           \* what the last lottery play returned
    monthly_rent,         \* ExpenseManager.monthly_expenses.rent
    last_payment_date,    \* ExpenseManager.last_payment_date, in days
    now,                  \* datetime.now(), in days
    exp_result,           \* what the last process_monthly_payment returned
    billing_log,          \* when billing last succeeded and was last attempted
    savefile,             \* savegame.json: <<>> when absent, else <<its document>>
    thread,               \* the tick thread's and the user command's position and locals
    detached,             \* StockPosition objects deleted from the dict, still referenced
    conc0,                \* the portfolio and market a concurrent run started from
    lot_log,              \* the non-winning lottery plays since the last winning one
    gen_result,           \* what the last generate_order returned or raised
    study_schedule,       \* NightSchool.study_schedule
    school_result,        \* what the last NightSchool call returned
    career_result,        \* what the last CareerTransition call returned
    load_result,          \* what the last load_game returned, and the state it was called on
    saved_gs,             \* the state the last save_game wrote
    available_orders,     \* GameGUI.available_orders
    selected_order,       \* GameGUI.selected_order: <<>> for None, else <<the order>>
    resolved_orders,      \* the orders start_delivery resolved, as it left them
    next_order_id,        \* the number of Order objects created so far, plus one
    dialogue_mode,        \* GameGUI.dialogue_mode_var
    interaction_history,  \* CustomerInteractionSystem.interaction_history
    interactions,         \* the number of interact_with_customer calls so far
    current_game_time,    \* GameTimeManager.current_game_time, in minutes of game time
    game_day,             \* GameTimeManager.game_day
    notified,             \* the calls the time callbacks received
    crossed               \* the day and hour boundaries the game time went over

refs == <<session_gs, sim_gs, cust_gs, pf_gs, exp_gs>>
pfVars == <<stock_positions, transaction_history, pf_result>>
delVars == <<del_result, del_drawn>>
lotVars == <<consecutive_losses, lot_result, lot_log>>
expVars == <<monthly_rent, last_payment_date, exp_result, billing_log>>
concVars == <<thread, detached, conc0>>
schoolVars == <<study_schedule, school_result, career_result>>
extVars == <<gen_result, schoolVars, load_result, saved_gs>>
orderVars == <<available_orders, selected_order, resolved_orders, next_order_id>>
talkVars == <<dialogue_mode, interaction_history, interactions>>
timeVars == <<current_game_time, game_day, notified, crossed>>
guiVars == <<orderVars, talkVars, timeVars>>
vars ==
    <<heap, refs, pfVars, delVars, lotVars, expVars, now, savefile, concVars, extVars,
      guiVars>>

(***************************************************************************)
(* Arithmetic helpers                                                      *)
(***************************************************************************)
Cents(coins) == coins * 100

Abs(x) == IF x < 0 THEN -x ELSE x

RECURSIVE GCD(_, _)
GCD(a, b) == IF b = 0 THEN a ELSE GCD(b, a % b)

\* the fraction n/d (d > 0) in lowest terms
Frac(n, d) ==
    LET g == GCD(Abs(n), d)
    IN  IF g = 0 THEN <<0, 1>> ELSE <<n \div g, d \div g>>

\* round(x, 2) of a money value x = n/d cents: the nearest cent, a tie to even
Round2(f) ==
    LET q == f[1] \div f[2]
        r == f[1] % f[2]
    IN  IF 2 * r < f[2] THEN q
        ELSE IF 2 * r > f[2] THEN q + 1
        ELSE IF q % 2 = 0 THEN q ELSE q + 1

Last(s) == s[Len(s)]

(***************************************************************************)
(* PlayerState                                                             *)
(***************************************************************************)
\* PlayerAttributes, FinancialStatus, DeliveryEquipment, GameStats defaults
NewGameState ==
    [ delivery_coins         |-> Cents(100),
      credit_score           |-> 100,
      experience             |-> 0,
      level                  |-> 1,
      five_star_ratings      |-> 0,
      successful_deliveries  |-> 0,
      total_earnings         |-> 0,
      total_tips             |-> 0,
      direction_sense        |-> 1,
      emotional_intelligence |-> 1,
      weather                |-> "SUNNY",
      rain_cover             |-> FALSE,
      battery_capacity       |-> 100,
      player_name            |-> "",
      current_time           |-> 0,
      education_level        |-> 1,
      stamina                |-> 100,
      debt                   |-> Cents(50000),
      is_online              |-> TRUE,
      fatigue_level          |-> 0,
      current_location       |-> "ANT_NEST" ]

(***************************************************************************)
(* InvestmentPortfolio: the sequential semantics of each method, as a      *)
(* function of the portfolio pf = [coins, positions, history].             *)
(***************************************************************************)
max_leverage == 5
margin_call_threshold_pct == 30

HasPos(positions, symbol) ==
    \E i \in 1..Len(positions) : positions[i].symbol = symbol

PosIndex(positions, symbol) ==
    CHOOSE i \in 1..Len(positions) : positions[i].symbol = symbol

PosOf(positions, symbol) == positions[PosIndex(positions, symbol)]

DelPos(positions, symbol) ==
    SelectSeq(positions, LAMBDA q : q.symbol # symbol)

\* a history entry; a key the source's entry lacks is 0 (profit: <<>>)
Entry(action, symbol, shares, price, leverage, amount, profit) ==
    [ action |-> action, symbol |-> symbol, shares |-> shares, price |-> price,
      leverage |-> leverage, amount |-> amount, profit |-> profit ]

\* a returned dict; profit is <<>> when the dict has no 'profit' key
Result(op, success, message, profit) ==
    [ op |-> op, success |-> success, message |-> message, profit |-> profit ]

\* mutant of merge_position: the plain mean of the old average and the new price
merge_position_unweighted(position, shares, price) ==
    [ position EXCEPT !.avg_cost = Frac(position.avg_cost[1] + price * position.avg_cost[2],
                                        2 * position.avg_cost[2]),
                      !.shares = position.shares + shares ]

merge_position(position, shares, price) ==
    LET total_shares == position.shares + shares
        \* total_cost = avg_cost * position.shares + price * shares, over avg's denominator
        total_num == position.avg_cost[1] * position.shares
                       + price * shares * position.avg_cost[2]
    IN  [ position EXCEPT !.avg_cost = Frac(total_num, position.avg_cost[2] * total_shares),
                          !.shares = total_shares ]

new_position(symbol, shares, price, leverage) ==
    [ symbol |-> symbol, shares |-> shares, avg_cost |-> <<price, 1>>,
      current_price |-> price, leverage |-> leverage ]

buy_cost(shares, price, leverage) == (shares * price) \div leverage

\* mutant of funds_short: the funds check is missing
funds_short_never(pf, cost) == FALSE

funds_short(pf, cost) == cost > pf.coins

buy_stock(pf, symbol, shares, price, leverage) ==
    IF leverage > max_leverage
    THEN [ pf |-> pf, result |-> Result("buy", FALSE, "leverage_over_max", <<>>) ]
    ELSE
    LET cost == buy_cost(shares, price, leverage) IN
    IF funds_short(pf, cost)
    THEN [ pf |-> pf, result |-> Result("buy", FALSE, "insufficient_funds", <<>>) ]
    ELSE
    LET positions ==
            IF HasPos(pf.positions, symbol)
            THEN [ pf.positions EXCEPT ![PosIndex(pf.positions, symbol)] =
                       merge_position(@, shares, price) ]
            ELSE Append(pf.positions, new_position(symbol, shares, price, leverage))
    IN  [ pf |-> [ coins |-> pf.coins - cost,
                   positions |-> positions,
                   history |-> Append(pf.history,
                       Entry("buy", symbol, shares, price, leverage, cost, <<>>)) ],
          result |-> Result("buy", TRUE, "bought", <<>>) ]

\* mutant of sell_revenue: the position's last known price instead of the sell price
sell_revenue_stale_price(shares, price, position) ==
    shares * position.current_price * position.leverage

sell_revenue(shares, price, position) == shares * price * position.leverage

\* (price - avg_cost) * shares * leverage, a fraction of cents
sell_profit(shares, price, position) ==
    Frac((price * position.avg_cost[2] - position.avg_cost[1])
            * shares * position.leverage,
         position.avg_cost[2])

sell_stock(pf, symbol, shares, price) ==
    IF ~HasPos(pf.positions, symbol)
    THEN [ pf |-> pf, result |-> Result("sell", FALSE, "no_position", <<>>) ]
    ELSE
    LET position == PosOf(pf.positions, symbol) IN
    IF shares > position.shares
    THEN [ pf |-> pf, result |-> Result("sell", FALSE, "insufficient_shares", <<>>) ]
    ELSE
    LET revenue == sell_revenue(shares, price, position)
        profit == sell_profit(shares, price, position)
        positions ==
            IF shares = position.shares
            THEN DelPos(pf.positions, symbol)
            ELSE [ pf.positions EXCEPT ![PosIndex(pf.positions, symbol)].shares =
                       @ - shares ]
    IN  [ pf |-> [ coins |-> pf.coins + revenue,
                   positions |-> positions,
                   history |-> Append(pf.history,
                       Entry("sell", symbol, shares, price, position.leverage,
                             revenue, profit)) ],
          result |-> Result("sell", TRUE, "sold", <<Round2(profit)>>) ]

\* mutant of loss_at_threshold: a strict comparison with the threshold
loss_over_threshold(position) ==
    IF position.avg_cost[1] = 0 THEN FALSE
    ELSE 100 * (position.avg_cost[1] - position.current_price * position.avg_cost[2])
             > margin_call_threshold_pct * position.avg_cost[1]

\* loss_percent >= margin_call_threshold, with
\* loss_percent = -profit_loss_percent / 100 and profit_loss_percent 0 at avg_cost 0
loss_at_threshold(position) ==
    IF position.avg_cost[1] = 0 THEN FALSE
    ELSE 100 * (position.avg_cost[1] - position.current_price * position.avg_cost[2])
             >= margin_call_threshold_pct * position.avg_cost[1]

margin_called(position) ==
    position.leverage > 1 /\ loss_at_threshold(position)

force_liquidation(pf, symbol, position) ==
    LET liquidation_price == position.current_price
        sold == sell_stock(pf, symbol, position.shares, liquidation_price).pf
    IN  [ sold EXCEPT !.history = Append(@,
              Entry("liquidation", symbol, position.shares, liquidation_price, 0, 0, <<>>)) ]

\* the loop of _check_margin_call over the snapshot list(stock_positions.items())
RECURSIVE margin_loop(_, _, _)
margin_loop(pf, snapshot, i) ==
    IF i > Len(snapshot) THEN pf
    ELSE margin_loop(
             IF margin_called(snapshot[i])
             THEN force_liquidation(pf, snapshot[i].symbol, snapshot[i])
             ELSE pf,
             snapshot, i + 1)

check_margin_call(pf) == margin_loop(pf, pf.positions, 1)

\* market: symbol -> price of the stocks the market lists
update_positions(pf, market) ==
    LET priced == [ i \in 1..Len(pf.positions) |->
                      IF pf.positions[i].symbol \in DOMAIN market
                      THEN [ pf.positions[i] EXCEPT
                                 !.current_price = market[pf.positions[i].symbol] ]
                      ELSE pf.positions[i] ]
    IN  check_margin_call([ pf EXCEPT !.positions = priced ])

(***************************************************************************)
(* The portfolio's operations as actions                                   *)
(***************************************************************************)
Portfolio ==
    [ coins |-> heap[pf_gs].delivery_coins,
      positions |-> stock_positions,
      history |-> transaction_history ]

SetPortfolio(pf, result) ==
    /\ heap' = [ heap EXCEPT ![pf_gs].delivery_coins = pf.coins ]
    /\ stock_positions' = pf.positions
    /\ transaction_history' = pf.history
    /\ pf_result' = result
    /\ UNCHANGED <<refs, delVars, lotVars, expVars, now, savefile, concVars, extVars, guiVars>>

BuyStock(symbol, shares, price, leverage) ==
    LET r == buy_stock(Portfolio, symbol, shares, price, leverage)
    IN  SetPortfolio(r.pf, r.result)

SellStock(symbol, shares, price) ==
    LET r == sell_stock(Portfolio, symbol, shares, price)
    IN  SetPortfolio(r.pf, r.result)

UpdatePositions(market) ==
    SetPortfolio(update_positions(Portfolio, market),
                 Result("update", TRUE, "none", <<>>))

(***************************************************************************)
(* DeliverySimulator                                                       *)
(*                                                                         *)
(* An order is [priority, base_fee, weather_bonus, peak_hour_bonus,        *)
(* complaint_probability, tip_probability]: money in cents, probabilities  *)
(* in 1/10000.  rolls holds what the random source answers: rolls.x is     *)
(* whether the x-th random.random() fell under its threshold.              *)
(***************************************************************************)
FracAdd(f, cents) == Frac(f[1] + cents * f[2], f[2])
FracSub(f, g) == Frac(f[1] * g[2] - g[1] * f[2], f[2] * g[2])

\* a random event; a key the source's event lacks is 0
Event(type, cost, bonus, time_penalty) ==
    [ type |-> type, cost |-> cost, bonus |-> bonus, time_penalty |-> time_penalty ]

bad_weather(gs) == gs.weather \in {"RAINY", "STORMY"}

handle_random_events(gs, order, rolls) ==
    (IF bad_weather(gs) /\ rolls.food /\ ~gs.rain_cover
     THEN << Event("food_damage", Frac(order.base_fee, 2), 0, 0) >> ELSE <<>>)
    \o (IF rolls.accident
        THEN << Event("accident", <<Cents(500), 1>>, 0, 0) >> ELSE <<>>)
    \o (IF rolls.battery /\ gs.battery_capacity < 50
        THEN << Event("battery_dead", <<0, 1>>, 0, 20) >> ELSE <<>>)
    \o (IF rolls.bonus /\ gs.direction_sense > 3
        THEN << Event("time_bonus", <<0, 1>>, Cents(3), 0) >> ELSE <<>>)

\* mutant of event_loop: an accident zeroes the total and the loop goes on
RECURSIVE event_loop_no_return(_, _, _)
event_loop_no_return(events, i, total) ==
    IF i > Len(events) THEN [ accident |-> FALSE, total |-> total ]
    ELSE IF events[i].type = "accident"
         THEN event_loop_no_return(events, i + 1, <<0, 1>>)
    ELSE IF events[i].type = "equipment_damage"
         THEN event_loop_no_return(events, i + 1, FracSub(total, events[i].cost))
    ELSE IF events[i].type = "time_bonus"
         THEN event_loop_no_return(events, i + 1, FracAdd(total, events[i].bonus))
    ELSE event_loop_no_return(events, i + 1, total)

\* the loop over the events: whether it returned at an accident, and total_earnings
RECURSIVE event_loop(_, _, _)
event_loop(events, i, total) ==
    IF i > Len(events) THEN [ accident |-> FALSE, total |-> total ]
    ELSE IF events[i].type = "accident"
         THEN [ accident |-> TRUE, total |-> total ]
    ELSE IF events[i].type = "equipment_damage"
         THEN event_loop(events, i + 1, FracSub(total, events[i].cost))
    ELSE IF events[i].type = "time_bonus"
         THEN event_loop(events, i + 1, FracAdd(total, events[i].bonus))
    ELSE event_loop(events, i + 1, total)

calculate_experience(gs, order) ==
    (CASE order.priority = "S" -> 50
       [] order.priority = "A" -> 30
       [] order.priority = "D" -> 15)
    + (IF bad_weather(gs) THEN 10 ELSE 0)

\* complaint_chance, in 1/100000
complaint_chance(gs, order) ==
    IF gs.emotional_intelligence > 5
    THEN order.complaint_probability * 8
    ELSE order.complaint_probability * 10

DeliveryResult(success, earnings, tip, complaint, experience_gained, events) ==
    [ success |-> success, earnings |-> earnings, tip |-> tip,
      complaint |-> complaint, experience_gained |-> experience_gained,
      events |-> events ]

simulate_delivery(gs, order, rolls) ==
    LET events == handle_random_events(gs, order, rolls)
        walked == event_loop(events, 1,
                      <<order.base_fee + order.weather_bonus + order.peak_hour_bonus, 1>>)
        event_draws == (IF bad_weather(gs) THEN {"food"} ELSE {})
                         \cup {"accident", "battery", "bonus"}
    IN
    IF walked.accident
    THEN [ gs |-> gs, result |-> DeliveryResult(FALSE, 0, 0, FALSE, 0, events),
           drawn |-> event_draws ]
    ELSE
    LET tip == IF rolls.tip THEN rolls.tip_amount ELSE 0
        total_earnings == FracAdd(walked.total, tip)
        rated == IF rolls.complaint
                 THEN [ gs EXCEPT !.credit_score = @ - 5 ]
                 ELSE [ gs EXCEPT !.five_star_ratings = @ + 1,
                                  !.credit_score = @ + 1 ]
    IN  [ gs |-> rated,
          result |-> DeliveryResult(TRUE, Round2(total_earnings), tip, rolls.complaint,
                                    calculate_experience(gs, order), events),
          drawn |-> event_draws \cup {"tip", "complaint"}
                      \cup (IF rolls.tip THEN {"tip_amount"} ELSE {}) ]

\* what random.random() < p can answer, p = chance / one in [0, 1]
RollOutcomes(chance, one) ==
    { b \in BOOLEAN : (b => chance > 0) /\ (~b => chance < one) }

\* the answers the random source can give for this order and player
PossibleRolls(gs, order, rolls) ==
    /\ rolls.tip \in RollOutcomes(order.tip_probability, 10000)
    /\ rolls.complaint \in RollOutcomes(complaint_chance(gs, order), 100000)
    /\ rolls.tip_amount = 0 <=> ~rolls.tip

SimulateDelivery(order, rolls) ==
    /\ PossibleRolls(heap[sim_gs], order, rolls)
    /\ LET r == simulate_delivery(heap[sim_gs], order, rolls)
       IN  /\ heap' = [ heap EXCEPT ![sim_gs] = r.gs ]
           /\ del_result' = r.result
           /\ del_drawn' = r.drawn
    /\ UNCHANGED <<refs, pfVars, lotVars, expVars, now, savefile, concVars, extVars, guiVars>>

(***************************************************************************)
(* CustomerInteractionSystem                                               *)
(***************************************************************************)
\* the "credit" effect of a chosen option's impact
apply_interaction_impact(gs, credit) ==
    [ gs EXCEPT !.credit_score = @ + credit ]

ApplyInteractionImpact(credit) ==
    /\ heap' = [ heap EXCEPT ![cust_gs] = apply_interaction_impact(@, credit) ]
    /\ UNCHANGED <<refs, pfVars, delVars, lotVars, expVars, now, savefile, concVars, extVars, guiVars>>

(***************************************************************************)
(* LotterySystem.  A draw is abstracted to its match counts.               *)
(***************************************************************************)
LotteryPrice(lottery_type) ==
    CASE lottery_type = "DOUBLE_COLOR_BALL" -> Cents(2)
      [] lottery_type = "SUPER_LOTTO" -> Cents(2)
      [] lottery_type = "SCRATCH_CARD" -> Cents(10)

\* base * bonus_multiplier, bonus_multiplier = 1 + losses * 0.1
WithBonus(base, losses) == base + (base \div 10) * losses

\* mutant of calculate_double_color_ball_prize: the bonus on every tier
calculate_double_color_ball_prize_all_bonus(red_matches, blue_match, losses) ==
    IF red_matches = 6 /\ blue_match THEN WithBonus(Cents(5000000), losses)
    ELSE IF red_matches = 6 THEN WithBonus(Cents(1000000), losses)
    ELSE IF red_matches = 5 /\ blue_match THEN WithBonus(Cents(3000), losses)
    ELSE IF red_matches = 5 \/ (red_matches = 4 /\ blue_match)
         THEN WithBonus(Cents(200), losses)
    ELSE IF red_matches = 4 \/ (red_matches = 3 /\ blue_match)
         THEN WithBonus(Cents(10), losses)
    ELSE IF blue_match THEN WithBonus(Cents(5), losses)
    ELSE WithBonus(Cents(1), losses)

calculate_double_color_ball_prize(red_matches, blue_match, losses) ==
    IF red_matches = 6 /\ blue_match THEN Cents(5000000)
    ELSE IF red_matches = 6 THEN Cents(1000000)
    ELSE IF red_matches = 5 /\ blue_match THEN WithBonus(Cents(3000), losses)
    ELSE IF red_matches = 5 \/ (red_matches = 4 /\ blue_match)
         THEN WithBonus(Cents(200), losses)
    ELSE IF red_matches = 4 \/ (red_matches = 3 /\ blue_match)
         THEN WithBonus(Cents(10), losses)
    ELSE IF blue_match THEN WithBonus(Cents(5), losses)
    ELSE 0

calculate_super_lotto_prize(front_matches, back_matches) ==
    IF front_matches = 5 /\ back_matches = 2 THEN Cents(10000000)
    ELSE IF front_matches = 5 /\ back_matches = 1 THEN Cents(500000)
    ELSE IF front_matches = 5 THEN Cents(10000)
    ELSE IF front_matches = 4 /\ back_matches = 2 THEN Cents(3000)
    ELSE IF front_matches = 4 /\ back_matches = 1 THEN Cents(300)
    ELSE IF front_matches = 3 /\ back_matches = 2 THEN Cents(200)
    ELSE IF front_matches = 4 \/ (front_matches = 3 /\ back_matches = 1)
              \/ (front_matches = 2 /\ back_matches = 2) THEN Cents(10)
    ELSE IF front_matches = 3 \/ (front_matches = 1 /\ back_matches = 2)
              \/ (front_matches = 2 /\ back_matches = 1) \/ back_matches = 2
         THEN Cents(5)
    ELSE 0

ScratchPrizes == { 0, Cents(10), Cents(20), Cents(50), Cents(100), Cents(500),
                   Cents(1000), Cents(10000) }

\* a returned dict; streak is the counter the play started from; first and
\* second are red_matches and blue_match (1 or 0), or front and back matches
LotteryResult(lottery_type, prize, first, second, streak) ==
    [ type |-> lottery_type, prize |-> prize, cost |-> LotteryPrice(lottery_type),
      first |-> first, second |-> second, streak |-> streak ]

\* a mutation of next_consecutive_losses: a win does not reset the counter
next_consecutive_losses_never_reset(prize, losses) == losses + 1

\* the counter after a double-colour-ball play that paid prize
next_consecutive_losses(prize, losses) == IF prize > 0 THEN 0 ELSE losses + 1

\* buy_lottery returned a dict with this prize
LogPlay(prize) == IF prize > 0 THEN 0 ELSE lot_log + 1

PlayDoubleColorBall(red_matches, blue_match) ==
    LET prize == calculate_double_color_ball_prize(red_matches, blue_match,
                                                   consecutive_losses)
    IN  /\ consecutive_losses' = next_consecutive_losses(prize, consecutive_losses)
        /\ lot_result' = LotteryResult("DOUBLE_COLOR_BALL", prize, red_matches,
                                       IF blue_match THEN 1 ELSE 0, consecutive_losses)
        /\ lot_log' = LogPlay(prize)
        /\ UNCHANGED <<heap, refs, pfVars, delVars, expVars, now, savefile, concVars, extVars, guiVars>>

PlaySuperLotto(front_matches, back_matches) ==
    LET prize == calculate_super_lotto_prize(front_matches, back_matches)
    IN  /\ lot_result' = LotteryResult("SUPER_LOTTO", prize, front_matches,
                                       back_matches, consecutive_losses)
        /\ lot_log' = LogPlay(prize)
        /\ UNCHANGED <<heap, refs, pfVars, delVars, consecutive_losses, expVars, now,
                       savefile, concVars, extVars, guiVars>>

PlayScratchCard(prize) ==
    /\ lot_result' = LotteryResult("SCRATCH_CARD", prize, 0, 0, consecutive_losses)
    /\ lot_log' = LogPlay(prize)
    /\ UNCHANGED <<heap, refs, pfVars, delVars, consecutive_losses, expVars, now,
                   savefile, concVars, extVars, guiVars>>

(***************************************************************************)
(* ExpenseManager.  Dates are in whole days.                               *)
(***************************************************************************)
billing_period_days == 30
credit_penalty == 20

\* food, utilities, phone, transportation, medical, entertainment, debt_payment
other_expenses ==
    Cents(800) + Cents(200) + Cents(100) + Cents(300) + 0 + Cents(200) + Cents(1000)

initial_rent == Cents(2000)

expenses_total(rent) == rent + other_expenses

ExpenseResult(processed, success, rent_increased, total_expense) ==
    [ processed |-> processed, success |-> success,
      rent_increased |-> rent_increased, total_expense |-> total_expense ]

\* mutant of payment_due: the clock a successful payment set is not read
payment_due_always(current_time, last_payment) == TRUE

\* not (current_time - last_payment_date).days < 30
payment_due(current_time, last_payment) ==
    ~(current_time - last_payment < billing_period_days)

\* a mutation of credit_penalty_branch: the unpaid total is added to the debt
credit_penalty_branch_accrues_debt(gs, total_expense) ==
    [ gs EXCEPT !.credit_score = @ - credit_penalty, !.debt = @ + total_expense ]

\* the else branch: the balance does not cover total_expense
credit_penalty_branch(gs, total_expense) ==
    [ gs EXCEPT !.credit_score = @ - credit_penalty ]

\* rent_roll: whether random.random() < 0.1; rate: the increase in percent
ProcessMonthlyPayment(rent_roll, rate) ==
    IF ~payment_due(now, last_payment_date)
    THEN /\ exp_result' = ExpenseResult(FALSE, FALSE, FALSE, 0)
         /\ UNCHANGED <<heap, monthly_rent, last_payment_date, billing_log>>
         /\ UNCHANGED <<refs, pfVars, delVars, lotVars, now, savefile, concVars, extVars, guiVars>>
    ELSE IF rent_roll
    THEN /\ monthly_rent' = (monthly_rent * (100 + rate)) \div 100
         /\ exp_result' = ExpenseResult(TRUE, FALSE, TRUE, expenses_total(monthly_rent'))
         /\ billing_log' = [ billing_log EXCEPT !.attempt_at = now, !.rises = @ + 1 ]
         /\ UNCHANGED <<heap, last_payment_date>>
         /\ UNCHANGED <<refs, pfVars, delVars, lotVars, now, savefile, concVars, extVars, guiVars>>
    ELSE IF heap[exp_gs].delivery_coins >= expenses_total(monthly_rent)
    THEN /\ heap' = [ heap EXCEPT ![exp_gs].delivery_coins =
                          @ - expenses_total(monthly_rent) ]
         /\ last_payment_date' = now
         /\ exp_result' = ExpenseResult(TRUE, TRUE, FALSE, expenses_total(monthly_rent))
         /\ billing_log' = [ billing_log EXCEPT !.success_at = now, !.attempt_at = now ]
         /\ UNCHANGED monthly_rent
         /\ UNCHANGED <<refs, pfVars, delVars, lotVars, now, savefile, concVars, extVars, guiVars>>
    ELSE /\ heap' = [ heap EXCEPT ![exp_gs] =
                          credit_penalty_branch(@, expenses_total(monthly_rent)) ]
         /\ exp_result' = ExpenseResult(TRUE, FALSE, FALSE, expenses_total(monthly_rent))
         /\ billing_log' = [ billing_log EXCEPT !.attempt_at = now ]
         /\ UNCHANGED <<monthly_rent, last_payment_date>>
         /\ UNCHANGED <<refs, pfVars, delVars, lotVars, now, savefile, concVars, extVars, guiVars>>

\* the wall clock moves on
AdvanceClock(days) ==
    /\ now' = now + days
    /\ UNCHANGED <<heap, refs, pfVars, delVars, lotVars, expVars, savefile, concVars, extVars, guiVars>>

(***************************************************************************)
(* game_loop's thread and a user command on the same portfolio, statement  *)
(* by statement.  Nothing in the source locks the portfolio: the thread    *)
(* started by start_game_loop runs update_positions while the GUI thread   *)
(* runs buy_stock or sell_stock, and either may be preempted between any   *)
(* two steps below.                                                        *)
(***************************************************************************)
Threads == {"tick", "user"}

\* a reference to a StockPosition: the object the dict holds under sym, or
\* the object that was deleted from under sym
Ref(sym, attached) == [ sym |-> sym, attached |-> attached ]

NoRef == Ref("none", FALSE)

Deref(ref) ==
    IF ref.attached THEN PosOf(stock_positions, ref.sym) ELSE PosOf(detached, ref.sym)

DetachRef(ref, sym) ==
    IF ref.sym = sym THEN Ref(sym, FALSE) ELSE ref

\* after del stock_positions[sym], the references to the deleted object
DetachRefs(thr, sym) ==
    [ u \in Threads |->
        [ thr[u] EXCEPT !.pos = DetachRef(@, sym),
                        !.snapshot = [ k \in 1..Len(@) |-> DetachRef(@[k], sym) ] ] ]

IdleThread ==
    [ pc |-> "idle", op |-> "none", symbol |-> "none", shares |-> 0, price |-> 0,
      leverage |-> 0, pos |-> NoRef, amount |-> 0, tmp |-> 0, i |-> 0, size |-> 0,
      snapshot |-> <<>> ]

\* where a thread goes when sell_stock returns, and when it raises
Return(t) == IF t = "tick" THEN "liq_log" ELSE "done"
Raise(t) == IF t = "tick" THEN "crashed" ELSE "raised"

ConcFrame == UNCHANGED <<refs, delVars, lotVars, expVars, now, savefile, conc0, extVars, guiVars>>

Goto(t, pc) == thread' = [ thread EXCEPT ![t].pc = pc ]

\* what the user command returned
Returned(t, result) == IF t = "user" THEN pf_result' = result ELSE UNCHANGED pf_result

\* update_positions: iter(self.stock_positions.items())
TickStart ==
    /\ thread["tick"].pc = "start"
    /\ thread' = [ thread EXCEPT !["tick"].pc = "prices", !["tick"].i = 1,
                                 !["tick"].size = Len(stock_positions) ]
    /\ UNCHANGED <<heap, pfVars, detached>>
    /\ ConcFrame

\* one round of the for loop: next() raises RuntimeError when the dict changed size
TickPrices ==
    LET me == thread["tick"] IN
    /\ me.pc = "prices"
    /\ IF Len(stock_positions) # me.size
       THEN Goto("tick", "crashed") /\ UNCHANGED stock_positions
       ELSE IF me.i > Len(stock_positions)
       THEN Goto("tick", "snapshot") /\ UNCHANGED stock_positions
       ELSE /\ stock_positions' =
                 IF stock_positions[me.i].symbol \in DOMAIN conc0.market
                 THEN [ stock_positions EXCEPT ![me.i].current_price =
                            conc0.market[stock_positions[me.i].symbol] ]
                 ELSE stock_positions
            /\ thread' = [ thread EXCEPT !["tick"].i = me.i + 1 ]
    /\ UNCHANGED <<heap, transaction_history, pf_result, detached>>
    /\ ConcFrame

\* _check_margin_call: list(self.stock_positions.items())
TickSnapshot ==
    /\ thread["tick"].pc = "snapshot"
    /\ thread' = [ thread EXCEPT
           !["tick"].pc = "margin",
           !["tick"].snapshot = [ k \in 1..Len(stock_positions) |->
                                    Ref(stock_positions[k].symbol, TRUE) ] ]
    /\ UNCHANGED <<heap, pfVars, detached>>
    /\ ConcFrame

\* one round of _check_margin_call's loop, up to the call of sell_stock
TickMargin ==
    LET me == thread["tick"] IN
    /\ me.pc = "margin"
    /\ IF me.snapshot = <<>>
       THEN Goto("tick", "done")
       ELSE LET position == Deref(Head(me.snapshot)) IN
            IF margin_called(position)
            THEN thread' = [ thread EXCEPT !["tick"].pc = "sell_check",
                                           !["tick"].symbol = Head(me.snapshot).sym,
                                           !["tick"].shares = position.shares,
                                           !["tick"].price = position.current_price ]
            ELSE thread' = [ thread EXCEPT !["tick"].snapshot = Tail(me.snapshot) ]
    /\ UNCHANGED <<heap, pfVars, detached>>
    /\ ConcFrame

\* _force_liquidation after sell_stock returned
TickLiqLog ==
    LET me == thread["tick"] IN
    /\ me.pc = "liq_log"
    /\ transaction_history' = Append(transaction_history,
           Entry("liquidation", me.symbol, Deref(Head(me.snapshot)).shares,
                 me.price, 0, 0, <<>>))
    /\ thread' = [ thread EXCEPT !["tick"].pc = "margin",
                                 !["tick"].snapshot = Tail(me.snapshot) ]
    /\ UNCHANGED <<heap, stock_positions, pf_result, detached>>
    /\ ConcFrame

\* sell_stock: if symbol not in self.stock_positions
SellCheck(t) ==
    LET me == thread[t] IN
    /\ me.pc = "sell_check"
    /\ IF ~HasPos(stock_positions, me.symbol)
       THEN /\ Goto(t, Return(t))
            /\ Returned(t, Result("sell", FALSE, "no_position", <<>>))
       ELSE /\ Goto(t, "sell_fetch")
            /\ UNCHANGED pf_result
    /\ UNCHANGED <<heap, stock_positions, transaction_history, detached>>
    /\ ConcFrame

\* position = self.stock_positions[symbol] (KeyError when gone), the shares
\* test and revenue
SellFetch(t) ==
    LET me == thread[t] IN
    /\ me.pc = "sell_fetch"
    /\ IF ~HasPos(stock_positions, me.symbol)
       THEN Goto(t, Raise(t)) /\ UNCHANGED pf_result
       ELSE LET position == PosOf(stock_positions, me.symbol) IN
            IF me.shares > position.shares
            THEN /\ Goto(t, Return(t))
                 /\ Returned(t, Result("sell", FALSE, "insufficient_shares", <<>>))
            ELSE /\ thread' = [ thread EXCEPT
                        ![t].pc = "sell_update",
                        ![t].pos = Ref(me.symbol, TRUE),
                        ![t].amount = sell_revenue(me.shares, me.price, position) ]
                 /\ UNCHANGED pf_result
    /\ UNCHANGED <<heap, stock_positions, transaction_history, detached>>
    /\ ConcFrame

\* if shares == position.shares: del self.stock_positions[symbol] (KeyError
\* when gone), else the read of position.shares -= shares
SellUpdate(t) ==
    LET me == thread[t] IN
    /\ me.pc = "sell_update"
    /\ IF me.shares = Deref(me.pos).shares
       THEN IF ~HasPos(stock_positions, me.symbol)
            THEN Goto(t, Raise(t)) /\ UNCHANGED <<stock_positions, detached>>
            ELSE /\ stock_positions' = DelPos(stock_positions, me.symbol)
                 /\ detached' = Append(DelPos(detached, me.symbol),
                                       PosOf(stock_positions, me.symbol))
                 /\ thread' = [ DetachRefs(thread, me.symbol) EXCEPT
                                    ![t].pc = "sell_credit_read" ]
       ELSE /\ thread' = [ thread EXCEPT ![t].pc = "sell_shares_write",
                                         ![t].tmp = Deref(me.pos).shares ]
            /\ UNCHANGED <<stock_positions, detached>>
    /\ UNCHANGED <<heap, transaction_history, pf_result>>
    /\ ConcFrame

\* the write of position.shares -= shares
SellSharesWrite(t) ==
    LET me == thread[t] IN
    /\ me.pc = "sell_shares_write"
    /\ IF me.pos.attached
       THEN /\ stock_positions' =
                 [ stock_positions EXCEPT ![PosIndex(stock_positions, me.symbol)].shares =
                       me.tmp - me.shares ]
            /\ UNCHANGED detached
       ELSE /\ detached' =
                 [ detached EXCEPT ![PosIndex(detached, me.symbol)].shares =
                       me.tmp - me.shares ]
            /\ UNCHANGED stock_positions
    /\ Goto(t, "sell_credit_read")
    /\ UNCHANGED <<heap, transaction_history, pf_result>>
    /\ ConcFrame

\* the read of delivery_coins += revenue
SellCreditRead(t) ==
    /\ thread[t].pc = "sell_credit_read"
    /\ thread' = [ thread EXCEPT ![t].pc = "sell_credit_write",
                                 ![t].tmp = heap[pf_gs].delivery_coins ]
    /\ UNCHANGED <<heap, pfVars, detached>>
    /\ ConcFrame

\* the write of delivery_coins += revenue, the history entry and the return
SellCreditWrite(t) ==
    LET me == thread[t]
        position == Deref(me.pos)
        profit == sell_profit(me.shares, me.price, position)
    IN
    /\ me.pc = "sell_credit_write"
    /\ heap' = [ heap EXCEPT ![pf_gs].delivery_coins = me.tmp + me.amount ]
    /\ transaction_history' = Append(transaction_history,
           Entry("sell", me.symbol, me.shares, me.price, position.leverage,
                 me.amount, profit))
    /\ Goto(t, Return(t))
    /\ Returned(t, Result("sell", TRUE, "sold", <<Round2(profit)>>))
    /\ UNCHANGED <<stock_positions, detached>>
    /\ ConcFrame

\* buy_stock: the leverage test, cost and the funds test
BuyCheck ==
    LET me == thread["user"]
        cost == buy_cost(me.shares, me.price, me.leverage)
    IN
    /\ me.pc = "buy_check"
    /\ IF me.leverage > max_leverage
       THEN /\ Goto("user", "done")
            /\ pf_result' = Result("buy", FALSE, "leverage_over_max", <<>>)
       ELSE IF funds_short([ coins |-> heap[pf_gs].delivery_coins ], cost)
       THEN /\ Goto("user", "done")
            /\ pf_result' = Result("buy", FALSE, "insufficient_funds", <<>>)
       ELSE /\ thread' = [ thread EXCEPT !["user"].pc = "buy_debit_read",
                                         !["user"].amount = cost ]
            /\ UNCHANGED pf_result
    /\ UNCHANGED <<heap, stock_positions, transaction_history, detached>>
    /\ ConcFrame

\* the read of delivery_coins -= cost
BuyDebitRead ==
    /\ thread["user"].pc = "buy_debit_read"
    /\ thread' = [ thread EXCEPT !["user"].pc = "buy_debit_write",
                                 !["user"].tmp = heap[pf_gs].delivery_coins ]
    /\ UNCHANGED <<heap, pfVars, detached>>
    /\ ConcFrame

\* the write of delivery_coins -= cost
BuyDebitWrite ==
    LET me == thread["user"] IN
    /\ me.pc = "buy_debit_write"
    /\ heap' = [ heap EXCEPT ![pf_gs].delivery_coins = me.tmp - me.amount ]
    /\ Goto("user", "buy_position")
    /\ UNCHANGED <<pfVars, detached>>
    /\ ConcFrame

\* the position's update or creation, the history entry and the return
BuyPosition ==
    LET me == thread["user"] IN
    /\ me.pc = "buy_position"
    /\ stock_positions' =
           IF HasPos(stock_positions, me.symbol)
           THEN [ stock_positions EXCEPT ![PosIndex(stock_positions, me.symbol)] =
                      merge_position(@, me.shares, me.price) ]
           ELSE Append(stock_positions,
                       new_position(me.symbol, me.shares, me.price, me.leverage))
    /\ transaction_history' = Append(transaction_history,
           Entry("buy", me.symbol, me.shares, me.price, me.leverage, me.amount, <<>>))
    /\ pf_result' = Result("buy", TRUE, "bought", <<>>)
    /\ Goto("user", "done")
    /\ UNCHANGED <<heap, detached>>
    /\ ConcFrame

(***************************************************************************)
(* GameState.save_game / load_game and the session's menu commands         *)
(***************************************************************************)
Weathers == {"SUNNY", "RAINY", "STORMY", "SNOWY", "FOGGY", "TYPHOON"}

\* WeatherType's values, transliterated
WeatherLabel(w) ==
    CASE w = "SUNNY" -> "qingtian"
      [] w = "RAINY" -> "yutian"
      [] w = "STORMY" -> "baoyu"
      [] w = "SNOWY" -> "xuetian"
      [] w = "FOGGY" -> "wumai"
      [] w = "TYPHOON" -> "taifeng"

\* WeatherType(label)
WeatherOfLabel(label) == CHOOSE w \in Weathers : WeatherLabel(w) = label

Districts == {"ANT_NEST", "WUTONG_LANE", "STARTUP_PARK", "JADE_BAY"}

\* DistrictType's values, transliterated
DistrictLabel(d) ==
    CASE d = "ANT_NEST" -> "mayiwo"
      [] d = "WUTONG_LANE" -> "wutongxiang"
      [] d = "STARTUP_PARK" -> "chuangyeyuan"
      [] d = "JADE_BAY" -> "feicuiwan"

\* DistrictType(label)
DistrictOfLabel(label) == CHOOSE d \in Districts : DistrictLabel(d) = label

\* datetime.isoformat and datetime.fromisoformat
isoformat(t) == <<"day", t>>
fromisoformat(text) == text[2]

\* the document json.dump writes: is_online is not part of it
to_dict(gs) ==
    [ player_name      |-> gs.player_name,
      current_time     |-> isoformat(gs.current_time),
      weather          |-> WeatherLabel(gs.weather),
      attributes       |-> [ direction_sense        |-> gs.direction_sense,
                             emotional_intelligence |-> gs.emotional_intelligence,
                             education_level        |-> gs.education_level,
                             stamina                |-> gs.stamina,
                             credit_score           |-> gs.credit_score,
                             experience             |-> gs.experience,
                             level                  |-> gs.level ],
      finances         |-> [ delivery_coins |-> gs.delivery_coins, debt |-> gs.debt ],
      equipment        |-> [ battery_capacity |-> gs.battery_capacity,
                             rain_cover       |-> gs.rain_cover ],
      stats            |-> [ five_star_ratings     |-> gs.five_star_ratings,
                             successful_deliveries |-> gs.successful_deliveries,
                             total_earnings        |-> gs.total_earnings,
                             total_tips            |-> gs.total_tips ],
      fatigue_level    |-> gs.fatigue_level,
      current_location |-> DistrictLabel(gs.current_location) ]

\* a mutation of from_dict: the attributes of the running game are kept
from_dict_keeps_attributes(gs, data) ==
    [ gs EXCEPT !.player_name       = data.player_name,
                !.current_time      = fromisoformat(data.current_time),
                !.weather           = WeatherOfLabel(data.weather),
                !.delivery_coins    = data.finances.delivery_coins,
                !.debt              = data.finances.debt,
                !.battery_capacity  = data.equipment.battery_capacity,
                !.rain_cover        = data.equipment.rain_cover,
                !.five_star_ratings = data.stats.five_star_ratings,
                !.successful_deliveries = data.stats.successful_deliveries,
                !.total_earnings    = data.stats.total_earnings,
                !.total_tips        = data.stats.total_tips,
                !.fatigue_level     = data.fatigue_level,
                !.current_location  = DistrictOfLabel(data.current_location) ]

\* the assignments load_game makes to self from the document it read
from_dict(gs, data) ==
    [ gs EXCEPT !.player_name            = data.player_name,
                !.current_time           = fromisoformat(data.current_time),
                !.weather                = WeatherOfLabel(data.weather),
                !.direction_sense        = data.attributes.direction_sense,
                !.emotional_intelligence = data.attributes.emotional_intelligence,
                !.education_level        = data.attributes.education_level,
                !.stamina                = data.attributes.stamina,
                !.credit_score           = data.attributes.credit_score,
                !.experience             = data.attributes.experience,
                !.level                  = data.attributes.level,
                !.delivery_coins         = data.finances.delivery_coins,
                !.debt                   = data.finances.debt,
                !.battery_capacity       = data.equipment.battery_capacity,
                !.rain_cover             = data.equipment.rain_cover,
                !.five_star_ratings      = data.stats.five_star_ratings,
                !.successful_deliveries  = data.stats.successful_deliveries,
                !.total_earnings         = data.stats.total_earnings,
                !.total_tips             = data.stats.total_tips,
                !.fatigue_level          = data.fatigue_level,
                !.current_location       = DistrictOfLabel(data.current_location) ]

\* what load_game returned, and the state it was called on
LoadResult(called, returned, before) ==
    [ called |-> called, returned |-> returned, before |-> before ]

SaveGame ==
    /\ savefile' = << to_dict(heap[session_gs]) >>
    /\ saved_gs' = heap[session_gs]
    /\ UNCHANGED <<heap, refs, pfVars, delVars, lotVars, expVars, now, concVars, guiVars,
                   schoolVars, gen_result, load_result>>

\* returns False and changes nothing when the file is absent
LoadGame ==
    /\ heap' = IF savefile = <<>> THEN heap
               ELSE [ heap EXCEPT ![session_gs] = from_dict(@, savefile[1]) ]
    /\ load_result' = LoadResult(TRUE, savefile # <<>>, heap[session_gs])
    /\ UNCHANGED <<refs, pfVars, delVars, lotVars, expVars, now, savefile, concVars, guiVars,
                   schoolVars, gen_result, saved_gs>>

NewBillingLog(today) == [ success_at |-> today, attempt_at |-> today, rises |-> 0 ]

\* the player confirmed the dialog
NewGame ==
    /\ heap' = Append(heap, [ NewGameState EXCEPT !.current_time = now ])
    /\ session_gs' = Len(heap) + 1
    /\ pf_gs' = Len(heap) + 1
    /\ stock_positions' = <<>>
    /\ transaction_history' = <<>>
    /\ exp_gs' = Len(heap) + 1
    /\ monthly_rent' = initial_rent
    /\ last_payment_date' = now
    /\ billing_log' = NewBillingLog(now)
    /\ UNCHANGED <<sim_gs, cust_gs, pf_result, exp_result, delVars, lotVars, now, savefile, concVars, extVars, guiVars>>

(***************************************************************************)
(* OrderGenerator.  Fees are in cents, distances in tenths of a kilometre, *)
(* probabilities in 1/10000, multipliers in tenths.                        *)
(***************************************************************************)
CustomerTypes == {"PROGRAMMER_SHY", "RICH_IMPATIENT", "DIFFICULT_ELDERLY", "NORMAL", "VIP"}
Priorities == {"S", "A", "D"}

Min(a, b) == IF a <= b THEN a ELSE b
Max(a, b) == IF a >= b THEN a ELSE b

base_rates == [ p \in Priorities |->
    CASE p = "S" -> Cents(15) [] p = "A" -> Cents(8) [] p = "D" -> Cents(5) ]

district_multipliers == [ d \in Districts |->
    CASE d = "ANT_NEST" -> 12 [] d = "WUTONG_LANE" -> 10
      [] d = "STARTUP_PARK" -> 11 [] d = "JADE_BAY" -> 15 ]

calculate_base_fee(pickup, delivery, priority) ==
    Round2(Frac(base_rates[priority]
                  * (district_multipliers[pickup] + district_multipliers[delivery]), 20))

\* round(random.uniform(a, b), 1)
SameDistrictDistances == {5, 12, 20}
CrossDistrictDistances == {20, 47, 80}
calculate_distance(pickup, delivery) ==
    IF pickup = delivery THEN SameDistrictDistances ELSE CrossDistrictDistances

\* the dict has no entry for SNOWY
weather_multipliers ==
    [ w \in {"SUNNY", "RAINY", "STORMY", "FOGGY", "TYPHOON"} |->
        CASE w = "SUNNY" -> 10 [] w = "RAINY" -> 13 [] w = "STORMY" -> 16
          [] w = "FOGGY" -> 14 [] w = "TYPHOON" -> 20 ]

\* int(distance * 5 * multiplier), in minutes
calculate_estimated_time(distance, weather) ==
    (distance * 5 * weather_multipliers[weather]) \div 100

\* the dict has no entry for SNOWY
bonuses ==
    [ w \in {"SUNNY", "RAINY", "STORMY", "FOGGY", "TYPHOON"} |->
        CASE w = "SUNNY" -> 0 [] w = "RAINY" -> 3 [] w = "STORMY" -> 8
          [] w = "FOGGY" -> 4 [] w = "TYPHOON" -> 15 ]

calculate_weather_bonus(weather, base_fee) ==
    Round2(Frac(base_fee * bonuses[weather], 10))

peak_hours == {11, 12, 13, 18, 19, 20}

calculate_peak_bonus(hour, base_fee) ==
    IF hour \in peak_hours THEN Round2(Frac(base_fee * 2, 10)) ELSE 0

base_prob == [ p \in Priorities |->
    CASE p = "S" -> 7000 [] p = "A" -> 4000 [] p = "D" -> 500 ]

complaint_multipliers == [ c \in CustomerTypes |->
    CASE c = "PROGRAMMER_SHY" -> 3 [] c = "RICH_IMPATIENT" -> 15
      [] c = "DIFFICULT_ELDERLY" -> 12 [] c = "NORMAL" -> 10 [] c = "VIP" -> 8 ]

\* a mutation of calculate_complaint_probability: the product is not capped
calculate_complaint_probability_uncapped(priority, customer_type) ==
    (base_prob[priority] * complaint_multipliers[customer_type]) \div 10

calculate_complaint_probability(priority, customer_type) ==
    Min(9000, (base_prob[priority] * complaint_multipliers[customer_type]) \div 10)

district_prob == [ d \in Districts |->
    CASE d = "ANT_NEST" -> 1000 [] d = "WUTONG_LANE" -> 3000
      [] d = "STARTUP_PARK" -> 2000 [] d = "JADE_BAY" -> 6000 ]

tip_multipliers == [ c \in CustomerTypes |->
    CASE c = "PROGRAMMER_SHY" -> 12 [] c = "RICH_IMPATIENT" -> 8
      [] c = "DIFFICULT_ELDERLY" -> 5 [] c = "NORMAL" -> 10 [] c = "VIP" -> 15 ]

calculate_tip_probability(district, customer_type) ==
    Min(8000, (district_prob[district] * tip_multipliers[customer_type]) \div 10)

\* what generate_order returned: an Order, or the exception that left it
Generated(order) == [ called |-> TRUE, raised |-> "none", order |-> <<order>> ]
GenerateRaised(exception) == [ called |-> TRUE, raised |-> exception, order |-> <<>> ]
NotGenerated == [ called |-> FALSE, raised |-> "none", order |-> <<>> ]

\* the random choices are the parameters after hour (current_hour)
generate_order(weather, hour, pickup, delivery, customer_type, priority, distance) ==
    LET base_fee == calculate_base_fee(pickup, delivery, priority)
    IN  IF weather \notin DOMAIN weather_multipliers THEN GenerateRaised("KeyError")
        ELSE IF weather \notin DOMAIN bonuses THEN GenerateRaised("KeyError")
        ELSE Generated(
            [ pickup_district       |-> pickup,
              delivery_district     |-> delivery,
              customer_type         |-> customer_type,
              priority              |-> priority,
              base_fee              |-> base_fee,
              distance_km           |-> distance,
              estimated_time        |-> calculate_estimated_time(distance, weather),
              rain_requirement      |-> (weather = "RAINY"),
              weather_bonus         |-> calculate_weather_bonus(weather, base_fee),
              peak_hour_bonus       |-> calculate_peak_bonus(hour, base_fee),
              complaint_probability |->
                  calculate_complaint_probability(priority, customer_type),
              tip_probability       |->
                  calculate_tip_probability(delivery, customer_type) ])

GenerateOrder(weather, current_hour) ==
    /\ \E pickup \in Districts, delivery \in Districts, customer \in CustomerTypes,
          priority \in Priorities :
         \E distance \in calculate_distance(pickup, delivery) :
           gen_result' = generate_order(weather, current_hour, pickup, delivery,
                                        customer, priority, distance)
    /\ UNCHANGED <<heap, refs, pfVars, delVars, lotVars, expVars, now, savefile,
                   concVars, guiVars, schoolVars, load_result, saved_gs>>

(***************************************************************************)
(* NightSchool.  Effectiveness is in 1/1000, a pass probability is a       *)
(* fraction of 1/10000.                                                    *)
(***************************************************************************)
CourseTypes == {"FIRST_AID", "COMMUNICATION", "TRAFFIC_SAFETY", "CUSTOMER_SERVICE",
                "FINANCIAL_MANAGEMENT", "ENGLISH"}

Course(hours, cost, difficulty, skill_bonuses, unlock_requirements) ==
    [ duration_hours |-> hours, cost |-> cost, difficulty |-> difficulty,
      skill_bonuses |-> skill_bonuses, unlock_requirements |-> unlock_requirements ]

\* _initialize_courses; a dict of skills is a function from skill names
courses == [ c \in CourseTypes |->
    CASE c = "FIRST_AID" ->
           Course(20, Cents(200), "EASY",
                  [first_aid |-> 3, customer_service |-> 1], <<>>)
      [] c = "COMMUNICATION" ->
           Course(30, Cents(400), "MEDIUM",
                  [emotional_intelligence |-> 2, communication |-> 3], <<>>)
      [] c = "TRAFFIC_SAFETY" ->
           Course(15, Cents(150), "EASY",
                  [traffic_safety |-> 3, direction_sense |-> 1], <<>>)
      [] c = "CUSTOMER_SERVICE" ->
           Course(25, Cents(300), "MEDIUM",
                  [customer_service |-> 3, emotional_intelligence |-> 1],
                  [communication |-> 2])
      [] c = "FINANCIAL_MANAGEMENT" ->
           Course(40, Cents(600), "HARD",
                  [financial_management |-> 4, education_level |-> 1],
                  [education_level |-> 3])
      [] c = "ENGLISH" ->
           Course(50, Cents(800), "HARD",
                  [language_skills |-> 4, customer_service |-> 2],
                  [education_level |-> 2]) ]

\* the fields of PlayerAttributes: hasattr is true of these
PlayerAttributeFields ==
    {"direction_sense", "emotional_intelligence", "education_level", "stamina",
     "credit_score", "experience", "level"}

hasattr(skill) == skill \in PlayerAttributeFields

\* an absent skill is skipped
check_requirements(requirements, gs) ==
    \A skill \in DOMAIN requirements :
        hasattr(skill) => gs[skill] >= requirements[skill]

\* a returned dict of the school
\* a returned dict of the school; pass_probability is <<>> unless it is a key
SchoolResult(op, course_type, success, message, passed, pass_probability) ==
    [ op |-> op, course |-> course_type, success |-> success, message |-> message,
      passed |-> passed, pass_probability |-> pass_probability ]

enroll_course(course_type, gs) ==
    LET course == courses[course_type]
    IN  IF ~check_requirements(course.unlock_requirements, gs)
        THEN [ gs |-> gs,
               result |-> SchoolResult("enroll", course_type, FALSE, "requirements", FALSE, <<>>) ]
        ELSE IF gs.delivery_coins < course.cost
        THEN [ gs |-> gs,
               result |-> SchoolResult("enroll", course_type, FALSE, "funds", FALSE, <<>>) ]
        ELSE [ gs |-> [ gs EXCEPT !.delivery_coins = @ - course.cost ],
               result |-> SchoolResult("enroll", course_type, TRUE, "enrolled", FALSE, <<>>) ]

calculate_study_effectiveness(duration_minutes, gs) ==
    LET time_penalty == IF duration_minutes > 120
                        THEN (duration_minutes - 120) * 5 ELSE 0
    IN  Max(100, Min(1000, 7 * gs.stamina + gs.education_level * 50 - time_penalty))

max_session_minutes == 180

StudySessionRecord(course_type, duration_minutes, effectiveness) ==
    [ course_type |-> course_type, duration_minutes |-> duration_minutes,
      effectiveness |-> effectiveness,
      experience_gained |-> ((duration_minutes \div 10) * effectiveness) \div 1000 ]

study_session(course_type, minutes, gs, schedule) ==
    LET duration_minutes == Min(minutes, max_session_minutes)
        effectiveness == calculate_study_effectiveness(duration_minutes, gs)
    IN  [ gs |-> [ gs EXCEPT !.stamina = Max(0, @ - duration_minutes \div 5) ],
          schedule |-> Append(schedule,
              StudySessionRecord(course_type, duration_minutes, effectiveness)),
          result |-> SchoolResult("study", course_type, TRUE, "studied", FALSE, <<>>) ]

\* [s for s in self.study_schedule if s.course_type == course_type]
SessionsOf(schedule, course_type) ==
    SelectSeq(schedule, LAMBDA session : session.course_type = course_type)

RECURSIVE SumOver(_, _)
SumOver(sessions, field) ==
    IF sessions = <<>> THEN 0
    ELSE sessions[1][field] + SumOver(Tail(sessions), field)

\* a mutation of total_study_time: the sessions of every course are counted
total_study_time_all_courses(schedule, course_type) ==
    SumOver(schedule, "duration_minutes")

total_study_time(schedule, course_type) ==
    SumOver(SessionsOf(schedule, course_type), "duration_minutes")

\* the mean effectiveness of the course's sessions, 0.5 when there is none
avg_effectiveness(schedule, course_type) ==
    LET study_sessions == SessionsOf(schedule, course_type)
    IN  IF study_sessions = <<>> THEN <<500, 1>>
        ELSE Frac(SumOver(study_sessions, "effectiveness"), Len(study_sessions))

exam_base_rates == [ d \in {"EASY", "MEDIUM", "HARD"} |->
    CASE d = "EASY" -> 8 [] d = "MEDIUM" -> 6 [] d = "HARD" -> 4 ]

RECURSIVE SumLevels(_, _, _)
\* the levels, times weight, of the skills of the set that are attributes
SumLevels(skills, gs, weight) ==
    IF skills = {} THEN 0
    ELSE LET skill == CHOOSE k \in skills : TRUE
         IN  (IF hasattr(skill) THEN gs[skill] * weight ELSE 0)
               + SumLevels(skills \ {skill}, gs, weight)

FracLeq(f, g) == f[1] * g[2] <= g[1] * f[2]
FracClamp(lo, f, hi) ==
    IF FracLeq(f, <<lo, 1>>) THEN <<lo, 1>>
    ELSE IF FracLeq(<<hi, 1>>, f) THEN <<hi, 1>>
    ELSE f

\* a mutation of calculate_pass_probability: the study quality counts against
calculate_pass_probability_inverted(course_type, gs, schedule) ==
    LET course == courses[course_type]
        avg == avg_effectiveness(schedule, course_type)
        skill_bonus == SumLevels(DOMAIN course.skill_bonuses, gs, 200)
    IN  FracClamp(1000,
                  Frac(exam_base_rates[course.difficulty] * (1000 * avg[2] - avg[1])
                         + skill_bonus * avg[2], avg[2]),
                  9500)

calculate_pass_probability(course_type, gs, schedule) ==
    LET course == courses[course_type]
        avg == avg_effectiveness(schedule, course_type)
        skill_bonus == SumLevels(DOMAIN course.skill_bonuses, gs, 200)
    IN  FracClamp(1000,
                  Frac(exam_base_rates[course.difficulty] * avg[1]
                         + skill_bonus * avg[2], avg[2]),
                  9500)

\* only the skills that are attributes already are raised
apply_skill_bonuses(skill_bonuses, gs) ==
    [ field \in DOMAIN gs |->
        IF field \in DOMAIN skill_bonuses /\ hasattr(field)
        THEN gs[field] + skill_bonuses[field]
        ELSE gs[field] ]

\* roll is random.random() < pass_probability
take_exam(course_type, roll, gs, schedule) ==
    LET course == courses[course_type]
    IN  IF total_study_time(schedule, course_type) < course.duration_hours * 60
        THEN [ gs |-> gs,
               result |-> SchoolResult("exam", course_type, FALSE, "study_time", FALSE, <<>>) ]
        ELSE IF roll
        THEN [ gs |-> apply_skill_bonuses(course.skill_bonuses, gs),
               result |-> SchoolResult("exam", course_type, TRUE, "passed", TRUE, <<>>) ]
        ELSE [ gs |-> gs,
               result |-> SchoolResult("exam", course_type, TRUE, "failed", FALSE,
                   << calculate_pass_probability(course_type, gs, schedule) >>) ]

SchoolFrame ==
    UNCHANGED <<refs, pfVars, delVars, lotVars, expVars, now, savefile, concVars, guiVars,
                gen_result, career_result, load_result, saved_gs>>

EnrollCourse(course_type) ==
    LET out == enroll_course(course_type, heap[session_gs])
    IN  /\ heap' = [ heap EXCEPT ![session_gs] = out.gs ]
        /\ school_result' = out.result
        /\ UNCHANGED study_schedule
        /\ SchoolFrame

StudySession(course_type, minutes) ==
    LET out == study_session(course_type, minutes, heap[session_gs], study_schedule)
    IN  /\ heap' = [ heap EXCEPT ![session_gs] = out.gs ]
        /\ study_schedule' = out.schedule
        /\ school_result' = out.result
        /\ SchoolFrame

\* the draw falls under a probability that is neither 0 nor 1, or does not
TakeExam(course_type, roll) ==
    LET out == take_exam(course_type, roll, heap[session_gs], study_schedule)
    IN  /\ heap' = [ heap EXCEPT ![session_gs] = out.gs ]
        /\ school_result' = out.result
        /\ UNCHANGED study_schedule
        /\ SchoolFrame

rest_cost == Cents(10)

\* GameGUI.rest_action
RestAction ==
    LET gs == heap[session_gs]
    IN  /\ heap' = IF gs.stamina >= 100 \/ gs.delivery_coins < rest_cost THEN heap
                   ELSE [ heap EXCEPT ![session_gs] =
                            [ gs EXCEPT !.delivery_coins = @ - rest_cost,
                                        !.stamina = Min(100, @ + 30),
                                        !.fatigue_level = Max(0, @ - 20) ] ]
        /\ UNCHANGED <<refs, pfVars, delVars, lotVars, expVars, now, savefile,
                       concVars, extVars, guiVars>>

(***************************************************************************)
(* CareerTransition.  A success rate is in 1/100.                          *)
(***************************************************************************)
Careers == {"civil_servant", "manager", "service_lead", "trainer"}

\* the requirements and the exam difficulty of each career
available_careers == [ c \in Careers |->
    CASE c = "civil_servant" ->
           [ requirements |-> [education_level |-> 5, communication |-> 3],
             exam_difficulty |-> "HARD" ]
      [] c = "manager" ->
           [ requirements |-> [education_level |-> 4, financial_management |-> 3],
             exam_difficulty |-> "MEDIUM" ]
      [] c = "service_lead" ->
           [ requirements |-> [customer_service |-> 4, emotional_intelligence |-> 3],
             exam_difficulty |-> "EASY" ]
      [] c = "trainer" ->
           [ requirements |-> [communication |-> 4, education_level |-> 3],
             exam_difficulty |-> "MEDIUM" ] ]

\* a returned dict of the career system; rolled tells whether random.random()
\* was drawn, success_rate is final_success_rate when it was
CareerResult(op, career, eligible, rolled, success, success_rate) ==
    [ op |-> op, career |-> career, eligible |-> eligible, rolled |-> rolled,
      success |-> success, success_rate |-> success_rate ]

\* an absent skill is skipped
check_eligibility(career, gs) ==
    IF career \notin DOMAIN available_careers THEN FALSE
    ELSE \A skill \in DOMAIN available_careers[career].requirements :
             hasattr(skill) =>
                 gs[skill] >= available_careers[career].requirements[skill]

final_success_rate(career, gs) ==
    Min(90, 10 * exam_base_rates[available_careers[career].exam_difficulty]
              + SumLevels(DOMAIN available_careers[career].requirements, gs, 5))

attempt_transition(career, roll, gs) ==
    IF ~check_eligibility(career, gs)
    THEN CareerResult("attempt", career, FALSE, FALSE, FALSE, 0)
    ELSE CareerResult("attempt", career, TRUE, TRUE, roll,
                      final_success_rate(career, gs))

CareerFrame ==
    UNCHANGED <<heap, refs, pfVars, delVars, lotVars, expVars, now, savefile,
                concVars, guiVars, gen_result, study_schedule, school_result, load_result,
                saved_gs>>

CheckEligibility(career) ==
    /\ career_result' = CareerResult("check", career,
                            check_eligibility(career, heap[session_gs]),
                            FALSE, FALSE, 0)
    /\ CareerFrame

AttemptTransition(career, roll) ==
    /\ career_result' = attempt_transition(career, roll, heap[session_gs])
    /\ CareerFrame

(***************************************************************************)
(* Initial states                                                          *)
(***************************************************************************)
NoResult == Result("none", TRUE, "none", <<>>)

InitRefs ==
    /\ session_gs = 1 /\ sim_gs = 1 /\ cust_gs = 1 /\ pf_gs = 1 /\ exp_gs = 1

InitPf ==
    /\ stock_positions = <<>>
    /\ transaction_history = <<>>
    /\ pf_result = NoResult

InitDel ==
    /\ del_result = DeliveryResult(TRUE, 0, 0, FALSE, 0, <<>>)
    /\ del_drawn = {}

InitLot ==
    /\ consecutive_losses = 0
    /\ lot_result = LotteryResult("SCRATCH_CARD", 0, 0, 0, 0)
    /\ lot_log = 0

InitExp ==
    /\ monthly_rent = initial_rent
    /\ last_payment_date = 0
    /\ exp_result = ExpenseResult(FALSE, FALSE, FALSE, 0)
    /\ billing_log = NewBillingLog(0)

NewPortfolio ==
    [ coins |-> NewGameState.delivery_coins, positions |-> <<>>, history |-> <<>> ]

InitExt ==
    /\ gen_result = NotGenerated
    /\ study_schedule = <<>>
    /\ school_result = SchoolResult("none", "none", FALSE, "none", FALSE, <<>>)
    /\ career_result = CareerResult("none", "none", FALSE, FALSE, FALSE, 0)
    /\ load_result = LoadResult(FALSE, FALSE, NewGameState)

\* no savegame.json yet
InitFile ==
    /\ savefile = <<>>
    /\ saved_gs = NewGameState

\* GameGUI before its first refresh_orders, with no interaction yet
InitOrderPool ==
    /\ available_orders = <<>>
    /\ selected_order = <<>>
    /\ resolved_orders = <<>>
    /\ next_order_id = 1

InitTalk ==
    /\ dialogue_mode = "OFFLINE"
    /\ interaction_history = <<>>
    /\ interactions = 0

\* GameTimeManager(): 09:00 of day 1
InitTime ==
    /\ current_game_time = 9 * 60
    /\ game_day = 1
    /\ notified = [ new_day |-> 0, hour |-> 0 ]
    /\ crossed = [ midnights |-> 0, hours |-> 0 ]

InitGui == InitOrderPool /\ InitTalk /\ InitTime

InitEnv ==
    /\ now = 0
    /\ InitFile
    /\ thread = [ t \in Threads |-> IdleThread ]
    /\ detached = <<>>
    /\ conc0 = [ pf |-> NewPortfolio, market |-> <<>> ]
    /\ InitExt
    /\ InitGui

(***************************************************************************)
(* Specification of the portfolio under margin calls                       *)
(***************************************************************************)
MaxTrades == 2

Symbols == {"000001", "000002"}
ShareCounts == {5}
SellCounts == {5, 10}
Leverages == {1, 5, 6}
Prices == {Cents(7), Cents(10), Cents(30)}
Markets == [Symbols -> Prices]

InitPortfolio ==
    /\ heap = <<NewGameState>>
    /\ InitRefs /\ InitPf /\ InitDel /\ InitLot /\ InitExp /\ InitEnv

\* at most MaxTrades trades succeed; a refused call is always possible
CanTrade == Len(transaction_history) < MaxTrades
Bounded == IF CanTrade THEN TRUE ELSE ~pf_result'.success

NextPortfolio ==
    \/ \E s \in Symbols, n \in ShareCounts, p \in Prices, l \in Leverages :
           BuyStock(s, n, p, l) /\ Bounded
    \/ \E s \in Symbols, n \in SellCounts, p \in Prices :
           SellStock(s, n, p) /\ Bounded
    \/ \E m \in Markets : UpdatePositions(m)

SpecPortfolio == InitPortfolio /\ [][NextPortfolio]_vars

(***************************************************************************)
(* Specification of the portfolio's trades at the prices of the scenarios  *)
(***************************************************************************)
TradeShares == {5, 10}
TradeLeverages == {1, 2}
TradePrices == {Cents(5), Cents(8), Cents(100), Cents(200)}
TradeBalances == {Cents(100), Cents(3000)}

InitTrades ==
    /\ \E b \in TradeBalances :
           heap = <<[ NewGameState EXCEPT !.delivery_coins = b ]>>
    /\ InitRefs /\ InitPf /\ InitDel /\ InitLot /\ InitExp /\ InitEnv

NextTrades ==
    \/ \E s \in Symbols, n \in TradeShares, p \in TradePrices, l \in TradeLeverages :
           BuyStock(s, n, p, l) /\ Bounded
    \/ \E s \in Symbols, n \in TradeShares, p \in TradePrices :
           SellStock(s, n, p) /\ Bounded

SpecTrades == InitTrades /\ [][NextTrades]_vars

(***************************************************************************)
(* Specification of the delivery simulator                                 *)
(***************************************************************************)
MaxDeliveries == 2

DeliveryOrders ==
    { [ priority |-> "S", base_fee |-> 2250, weather_bonus |-> 1800,
        peak_hour_bonus |-> 450, complaint_probability |-> 9000,
        tip_probability |-> 4800 ],
      [ priority |-> "D", base_fee |-> 575, weather_bonus |-> 0,
        peak_hour_bonus |-> 0, complaint_probability |-> 150,
        tip_probability |-> 3600 ],
      [ priority |-> "A", base_fee |-> 800, weather_bonus |-> 0,
        peak_hour_bonus |-> 0, complaint_probability |-> 0,
        tip_probability |-> 0 ] }

TipAmounts == {0, Cents(2), Cents(20)}

Rolls ==
    [ food : BOOLEAN, accident : BOOLEAN, battery : BOOLEAN, bonus : BOOLEAN,
      tip : BOOLEAN, tip_amount : TipAmounts, complaint : BOOLEAN ]

Players ==
    { [ NewGameState EXCEPT !.weather = w, !.rain_cover = c, !.battery_capacity = b,
                            !.direction_sense = d, !.emotional_intelligence = e ] :
        w \in {"SUNNY", "RAINY", "STORMY"}, c \in BOOLEAN, b \in {40, 100},
        d \in {1, 4}, e \in {1, 6} }

InitDelivery ==
    /\ \E gs \in Players : heap = <<gs>>
    /\ InitRefs /\ InitPf /\ InitDel /\ InitLot /\ InitExp /\ InitEnv

CanDeliver ==
    /\ heap[sim_gs].five_star_ratings < MaxDeliveries
    /\ heap[sim_gs].credit_score > NewGameState.credit_score - 5 * MaxDeliveries

NextDelivery ==
    \E o \in DeliveryOrders, r \in Rolls : CanDeliver /\ SimulateDelivery(o, r)

SpecDelivery == InitDelivery /\ [][NextDelivery]_vars

(***************************************************************************)
(* Specification of the lottery                                            *)
(***************************************************************************)
MaxLosses == 3

InitLottery ==
    /\ heap = <<NewGameState>>
    /\ InitRefs /\ InitPf /\ InitDel /\ InitLot /\ InitExp /\ InitEnv

NextLottery ==
    \/ \E red \in 0..6, blue \in BOOLEAN :
           PlayDoubleColorBall(red, blue) /\ consecutive_losses' <= MaxLosses
    \/ \E front \in 0..5, back \in 0..2 :
           PlaySuperLotto(front, back) /\ lot_log' <= MaxLosses
    \/ \E prize \in ScratchPrizes : PlayScratchCard(prize) /\ lot_log' <= MaxLosses

SpecLottery == InitLottery /\ [][NextLottery]_vars

(***************************************************************************)
(* Specification of the monthly billing                                    *)
(***************************************************************************)
MaxDay == 61
MaxPenalties == 2
MaxRentRises == 2

BillingBalances == {Cents(100), Cents(5000), Cents(10000)}
DaySteps == {1, 29, 30}
RentRates == {5, 15}

InitExpenses ==
    /\ \E b \in BillingBalances :
           heap = <<[ NewGameState EXCEPT !.delivery_coins = b ]>>
    /\ InitRefs /\ InitPf /\ InitDel /\ InitLot /\ InitExp /\ InitEnv

BillingBounded ==
    /\ heap'[exp_gs].credit_score
         >= NewGameState.credit_score - credit_penalty * MaxPenalties
    /\ billing_log'.rises <= MaxRentRises

NextExpenses ==
    \/ \E roll \in BOOLEAN, rate \in RentRates :
           ProcessMonthlyPayment(roll, rate) /\ BillingBounded
    \/ \E d \in DaySteps : now + d <= MaxDay /\ AdvanceClock(d)

SpecExpenses == InitExpenses /\ [][NextExpenses]_vars

(***************************************************************************)
(* Specification of a session: the menu commands and the subsystems' calls *)
(***************************************************************************)
MaxGames == 2

SessionOrder == CHOOSE o \in DeliveryOrders : o.priority = "A"
SessionRolls ==
    { r \in Rolls : /\ ~r.food /\ ~r.accident /\ ~r.battery /\ ~r.bonus /\ ~r.tip
                    /\ r.tip_amount = 0 /\ ~r.complaint }
SessionCredits == {2}

InitSession ==
    /\ heap = <<NewGameState>>
    /\ InitRefs /\ InitPf /\ InitDel /\ InitLot /\ InitExp /\ InitEnv

\* a subsystem acts on a player state nothing of its kind has touched yet
Fresh(gs) ==
    /\ heap[gs].five_star_ratings = NewGameState.five_star_ratings
    /\ heap[gs].credit_score = NewGameState.credit_score
    /\ heap[gs].delivery_coins = NewGameState.delivery_coins

NextSession ==
    \/ Len(heap) < MaxGames /\ NewGame
    \/ SaveGame
    \/ LoadGame
    \/ \E r \in SessionRolls : Fresh(sim_gs) /\ SimulateDelivery(SessionOrder, r)
    \/ \E c \in SessionCredits : Fresh(cust_gs) /\ ApplyInteractionImpact(c)
    \/ Fresh(pf_gs) /\ CanTrade /\ BuyStock("000001", 10, Cents(10), 5)
    \/ \E roll \in BOOLEAN :
           Fresh(exp_gs) /\ ProcessMonthlyPayment(roll, 5) /\ BillingBounded
    \/ now < billing_period_days /\ AdvanceClock(billing_period_days)

SpecSession == InitSession /\ [][NextSession]_vars

(***************************************************************************)
(* Specification of one tick of the game loop against one user command     *)
(***************************************************************************)
\* the position the player opened before the tick
HeldPosition ==
    { [ symbol |-> "000001", shares |-> 10, price |-> Cents(10), leverage |-> l ] :
        l \in {1, 2} }

ConcMarkets == { [ s \in Symbols |-> p ] : p \in {Cents(7), Cents(10)} }

UserCommands ==
    { [ op |-> "buy", symbol |-> s, shares |-> 10, leverage |-> 2 ] : s \in Symbols }
    \cup { [ op |-> "sell", symbol |-> "000001", shares |-> n, leverage |-> 0 ] :
             n \in {5, 10} }

InitConc ==
    /\ InitRefs /\ InitDel /\ InitLot /\ InitExp /\ InitExt /\ InitFile /\ InitGui
    /\ now = 0 /\ detached = <<>>
    /\ \E h \in HeldPosition, m \in ConcMarkets, c \in UserCommands :
         LET pf == buy_stock(NewPortfolio, h.symbol, h.shares, h.price, h.leverage).pf
         IN  /\ heap = << [ NewGameState EXCEPT !.delivery_coins = pf.coins ] >>
             /\ stock_positions = pf.positions
             /\ transaction_history = pf.history
             /\ pf_result = Result("buy", TRUE, "bought", <<>>)
             /\ conc0 = [ pf |-> pf, market |-> m ]
             /\ thread =
                  [ t \in Threads |->
                      IF t = "tick" THEN [ IdleThread EXCEPT !.pc = "start" ]
                      ELSE [ IdleThread EXCEPT
                               !.pc = IF c.op = "buy" THEN "buy_check" ELSE "sell_check",
                               !.op = c.op, !.symbol = c.symbol, !.shares = c.shares,
                               !.price = m[c.symbol], !.leverage = c.leverage ] ]

NextConc ==
    \/ TickStart
    \/ TickPrices
    \/ TickSnapshot
    \/ TickMargin
    \/ TickLiqLog
    \/ \E t \in Threads : SellCheck(t)
    \/ \E t \in Threads : SellFetch(t)
    \/ \E t \in Threads : SellUpdate(t)
    \/ \E t \in Threads : SellSharesWrite(t)
    \/ \E t \in Threads : SellCreditRead(t)
    \/ \E t \in Threads : SellCreditWrite(t)
    \/ BuyCheck
    \/ BuyDebitRead
    \/ BuyDebitWrite
    \/ BuyPosition

SpecConc == InitConc /\ [][NextConc]_vars

(***************************************************************************)
(* Specification of the order generator                                    *)
(***************************************************************************)
Hours == 0..23

InitOrders ==
    /\ heap = <<NewGameState>>
    /\ InitRefs /\ InitPf /\ InitDel /\ InitLot /\ InitExp /\ InitEnv

\* the generator keeps no state of its own: a call made first is any call
NextOrders ==
    /\ ~gen_result.called
    /\ \E weather \in Weathers, hour \in Hours : GenerateOrder(weather, hour)

SpecOrders == InitOrders /\ [][NextOrders]_vars

(***************************************************************************)
(* Specification of the night school: study sessions and exams             *)
(***************************************************************************)
MaxSessions == 5
MaxExamPasses == 2

\* the course and the minutes asked of a study session
StudyChoices == { <<"TRAFFIC_SAFETY", 120>>, <<"TRAFFIC_SAFETY", 240>>,
                  <<"COMMUNICATION", 120>>, <<"COMMUNICATION", 240>> }
\* the courses whose exam is sat: studied enough, studied too little, never studied
ExamCourses == {"TRAFFIC_SAFETY", "COMMUNICATION", "FIRST_AID"}

InitSchool ==
    /\ heap = <<NewGameState>>
    /\ InitRefs /\ InitPf /\ InitDel /\ InitLot /\ InitExp /\ InitEnv

NextSchool ==
    \/ \E choice \in StudyChoices :
           Len(study_schedule) < MaxSessions /\ StudySession(choice[1], choice[2])
    \/ \E c \in ExamCourses, roll \in BOOLEAN :
           /\ heap[session_gs].direction_sense
                  < NewGameState.direction_sense + MaxExamPasses
           /\ TakeExam(c, roll)

SpecSchool == InitSchool /\ [][NextSchool]_vars

(***************************************************************************)
(* Specification of saving and loading a game                              *)
(***************************************************************************)
MaxRests == 2

\* the state an earlier session of the program saved to savegame.json
EarlierPlayers ==
    { [ delivery_coins         |-> Cents(1000),
        credit_score           |-> 80,
        experience             |-> 45,
        level                  |-> 2,
        five_star_ratings      |-> 2,
        successful_deliveries  |-> 3,
        total_earnings         |-> Cents(60),
        total_tips             |-> Cents(2),
        direction_sense        |-> 4,
        emotional_intelligence |-> 6,
        weather                |-> "SNOWY",
        rain_cover             |-> TRUE,
        battery_capacity       |-> 40,
        player_name            |-> "xiaowang",
        current_time           |-> 0,
        education_level        |-> 3,
        stamina                |-> 40,
        debt                   |-> Cents(40000),
        is_online              |-> TRUE,
        fatigue_level          |-> 90,
        current_location       |-> "JADE_BAY" ] }

\* the program starts on the day after, with or without the earlier file
InitSave ==
    /\ now = 1
    /\ heap = <<[ NewGameState EXCEPT !.current_time = now ]>>
    /\ \/ InitFile
       \/ \E gs \in EarlierPlayers : savefile = << to_dict(gs) >> /\ saved_gs = gs
    /\ thread = [ t \in Threads |-> IdleThread ]
    /\ detached = <<>>
    /\ conc0 = [ pf |-> NewPortfolio, market |-> <<>> ]
    /\ InitRefs /\ InitPf /\ InitDel /\ InitLot /\ InitExp /\ InitExt /\ InitGui

\* fewer than MaxRests rests were paid from a starting balance
CanRest ==
    \E gs \in EarlierPlayers \cup {NewGameState} :
        /\ heap[session_gs].delivery_coins <= gs.delivery_coins
        /\ heap[session_gs].delivery_coins > gs.delivery_coins - MaxRests * rest_cost

NextSave ==
    \/ SaveGame
    \/ LoadGame
    \/ CanRest /\ RestAction
    \/ Len(heap) < MaxGames /\ NewGame

SpecSave == InitSave /\ [][NextSave]_vars

(***************************************************************************)
(* Specification of the enrolments                                         *)
(***************************************************************************)
EnrolBalances == {Cents(100), Cents(300), Cents(1000)}
EnrolEducation == {1, 2, 3}

\* players as deliveries and passed exams left them
InitEnrol ==
    /\ \E b \in EnrolBalances, level \in EnrolEducation :
           heap = <<[ NewGameState EXCEPT !.delivery_coins = b,
                                          !.education_level = level ]>>
    /\ InitRefs /\ InitPf /\ InitDel /\ InitLot /\ InitExp /\ InitEnv

NextEnrol == \E c \in CourseTypes : EnrollCourse(c)

SpecEnrol == InitEnrol /\ [][NextEnrol]_vars

(***************************************************************************)
(* Specification of the career transitions                                 *)
(***************************************************************************)
CareerEducation == {1, 3, 4, 5}
CareerEmotional == {1, 3, 6}

\* the names a caller may pass: the four careers and one that does not exist
CareerNames == Careers \cup {"astronaut"}

\* players as passed exams left them
InitCareer ==
    /\ \E level \in CareerEducation, ei \in CareerEmotional :
           heap = <<[ NewGameState EXCEPT !.education_level = level,
                                          !.emotional_intelligence = ei ]>>
    /\ InitRefs /\ InitPf /\ InitDel /\ InitLot /\ InitExp /\ InitEnv

NextCareer ==
    \/ \E career \in CareerNames : CheckEligibility(career)
    \/ \E career \in CareerNames, roll \in BOOLEAN : AttemptTransition(career, roll)

SpecCareer == InitCareer /\ [][NextCareer]_vars

(***************************************************************************)
(* GameTimeManager.  The game time is in minutes since 2024-01-01 00:00;   *)
(* one callback object with on_hour_change and on_new_day is registered.   *)
(***************************************************************************)
minutes_per_day == 24 * 60

\* datetime.day, within January 2024
day(t) == t \div minutes_per_day + 1

\* datetime.hour
hour(t) == (t % minutes_per_day) \div 60

\* the boundaries between the two times: midnights and full hours
Crossings(old_time, new_time) ==
    [ midnights |-> crossed.midnights
                      + (new_time \div minutes_per_day - old_time \div minutes_per_day),
      hours     |-> crossed.hours + (new_time \div 60 - old_time \div 60) ]

\* the calls of trigger_new_day_events and trigger_time_events
trigger_events(old_time, new_time) ==
    [ new_day |-> notified.new_day + (IF day(old_time) # day(new_time) THEN 1 ELSE 0),
      hour    |-> notified.hour + (IF hour(old_time) # hour(new_time) THEN 1 ELSE 0) ]

TimeFrame ==
    UNCHANGED <<heap, refs, pfVars, delVars, lotVars, expVars, now, savefile, concVars,
                extVars, orderVars, talkVars>>

\* game_time_advance is the game time the real time passed amounts to
UpdateTime(game_time_advance) ==
    LET old_game_time == current_game_time
        new_game_time == current_game_time + game_time_advance
    IN  /\ current_game_time' = new_game_time
        /\ game_day' = IF day(old_game_time) # day(new_game_time)
                       THEN game_day + 1 ELSE game_day
        /\ notified' = trigger_events(old_game_time, new_game_time)
        /\ crossed' = Crossings(old_game_time, new_game_time)
        /\ TimeFrame

AdvanceTime(minutes) ==
    /\ current_game_time' = current_game_time + minutes
    /\ crossed' = Crossings(current_game_time, current_game_time + minutes)
    /\ UNCHANGED <<game_day, notified>>
    /\ TimeFrame

(***************************************************************************)
(* Specification of the game clock                                         *)
(***************************************************************************)
MaxGameDays == 3

\* minutes of game time: a delivery, an hour, a night, two days
TimeSteps == {30, 60, 15 * 60, 2 * minutes_per_day}

InTime(minutes) == current_game_time + minutes < MaxGameDays * minutes_per_day

InitClock ==
    /\ heap = <<NewGameState>>
    /\ InitRefs /\ InitPf /\ InitDel /\ InitLot /\ InitExp /\ InitEnv

NextClock ==
    \/ \E advance \in TimeSteps : InTime(advance) /\ UpdateTime(advance)
    \/ \E minutes \in TimeSteps : InTime(minutes) /\ AdvanceTime(minutes)

SpecClock == InitClock /\ [][NextClock]_vars

(***************************************************************************)
(* CustomerInteractionSystem.interact_with_customer.  Triggers and texts   *)
(* are named in English; an impact without a "credit" key has credit <<>>. *)
(***************************************************************************)
DialogueModes == {"OFFLINE", "ONLINE"}

Triggers ==
    {"delivered_normally", "late_delivery", "urged", "delivered_on_time",
     "normal_delivery"}

\* a DialogueOption; required is the emotional_intelligence asked for, 0 for none
DialogueOption(text, credit, required) ==
    [ text |-> text, credit |-> credit, required |-> required ]

\* OfflineDialogueDatabase.dialogues, by customer type and trigger_condition
dialogues ==
    <<"PROGRAMMER_SHY", "delivered_normally">> :>
        << DialogueOption("at_the_door", <<2>>, 0),
           DialogueOption("come_and_get_it", <<-1>>, 0) >>
    @@ <<"PROGRAMMER_SHY", "late_delivery">> :>
        << DialogueOption("sorry_traffic", <<-1>>, 0),
           DialogueOption("at_the_door_still_hot", <<1>>, 0) >>
    @@ <<"RICH_IMPATIENT", "urged">> :>
        << DialogueOption("on_my_way", <<0>>, 0),
           DialogueOption("something_came_up", <<-3>>, 0),
           DialogueOption("rushing_your_order", <<1>>, 3) >>
    @@ <<"RICH_IMPATIENT", "delivered_on_time">> :>
        << DialogueOption("please_check", <<2>>, 0),
           DialogueOption("anything_else_boss", <<3>>, 4) >>
    @@ <<"DIFFICULT_ELDERLY", "normal_delivery">> :>
        << DialogueOption("hello_auntie", <<2>>, 0),
           DialogueOption("your_meal", <<>>, 0),
           DialogueOption("granny_eat_while_hot", <<3>>, 5) >>
    @@ <<"NORMAL", "normal_delivery">> :>
        << DialogueOption("hello_your_order", <<1>>, 0),
           DialogueOption("enjoy", <<1>>, 0) >>
    @@ <<"VIP", "normal_delivery">> :>
        << DialogueOption("vip_delivered", <<2>>, 0),
           DialogueOption("honoured_customer", <<3>>, 3) >>

\* the simulated LLM answers of the online mode
responses ==
    <<"PROGRAMMER_SHY", "delivered_normally">> :>
        << DialogueOption("left_at_door", <<2>>, 0),
           DialogueOption("order_arrived", <<1>>, 0),
           DialogueOption("no_reply_needed", <<3>>, 0) >>
    @@ <<"RICH_IMPATIENT", "urged">> :>
        << DialogueOption("sorry_expediting", <<0>>, 0),
           DialogueOption("arriving_soon", <<-1>>, 0),
           DialogueOption("dear_customer", <<2>>, 0) >>

\* every dialogue has two fallback phrases
fallback_phrases == 1..2

check_attribute_requirements(gs, option) ==
    option.required = 0 \/ gs.emotional_intelligence >= option.required

apply_impact(gs, impact_credit) ==
    IF impact_credit = <<>> THEN gs
    ELSE apply_interaction_impact(gs, impact_credit[1])

\* the options random.choice draws from
available_options(gs, options) ==
    LET passing == SelectSeq(options, LAMBDA o : check_attribute_requirements(gs, o))
    IN  IF passing = <<>> THEN options ELSE passing

InteractionRecord(gs, customer_type, trigger, chosen, phrase) ==
    [ timestamp |-> isoformat(gs.current_time), customer_type |-> customer_type,
      trigger |-> trigger, player_choice |-> chosen.text,
      customer_response |-> phrase, impact |-> chosen.credit ]

\* what the call does to the player state and to the history; pick and
\* phrase are the two random choices
offline_interaction(gs, history, customer_type, trigger, pick, phrase) ==
    IF <<customer_type, trigger>> \notin DOMAIN dialogues
    THEN [ gs |-> gs, history |-> history ]
    ELSE LET options == available_options(gs, dialogues[<<customer_type, trigger>>])
             chosen == options[(pick % Len(options)) + 1]
         IN  [ gs |-> apply_impact(gs, chosen.credit),
               history |-> Append(history,
                   InteractionRecord(gs, customer_type, trigger, chosen, phrase)) ]

online_interaction(gs, history, customer_type, trigger, pick) ==
    LET chosen == IF <<customer_type, trigger>> \in DOMAIN responses
                  THEN responses[<<customer_type, trigger>>]
                           [(pick % Len(responses[<<customer_type, trigger>>])) + 1]
                  ELSE DialogueOption("understood", <<0>>, 0)
    IN  [ gs |-> apply_impact(gs, chosen.credit), history |-> history ]

interact_with_customer(mode, gs, history, ctype, trigger, pick, phrase) ==
    IF mode = "OFFLINE"
    THEN offline_interaction(gs, history, ctype, trigger, pick, phrase)
    ELSE online_interaction(gs, history, ctype, trigger, pick)

Picks == 0..2

\* the radio buttons of the dialogue mode
SetDialogueMode(mode) ==
    /\ dialogue_mode' = mode
    /\ UNCHANGED <<interaction_history, interactions>>
    /\ UNCHANGED <<heap, refs, pfVars, delVars, lotVars, expVars, now, savefile, concVars,
                   extVars, orderVars, timeVars>>

InteractWithCustomer(customer_type, trigger, pick, phrase) ==
    LET out == interact_with_customer(dialogue_mode, heap[cust_gs], interaction_history,
                                      customer_type, trigger, pick, phrase)
    IN  /\ heap' = [ heap EXCEPT ![cust_gs] = out.gs ]
        /\ interaction_history' = out.history
        /\ interactions' = interactions + 1
        /\ UNCHANGED dialogue_mode
        /\ UNCHANGED <<refs, pfVars, delVars, lotVars, expVars, now, savefile, concVars,
                       extVars, orderVars, timeVars>>

(***************************************************************************)
(* Specification of the customer interactions                              *)
(***************************************************************************)
MaxInteractions == 2

TalkEmotional == {1, 4}

InitTalking ==
    /\ \E e \in TalkEmotional :
           heap = <<[ NewGameState EXCEPT !.emotional_intelligence = e ]>>
    /\ InitRefs /\ InitPf /\ InitDel /\ InitLot /\ InitExp /\ InitEnv

NextTalking ==
    \/ \E mode \in DialogueModes : SetDialogueMode(mode)
    \/ \E c \in CustomerTypes, t \in Triggers, pick \in Picks, phrase \in fallback_phrases :
           interactions < MaxInteractions /\ InteractWithCustomer(c, t, pick, phrase)

SpecTalking == InitTalking /\ [][NextTalking]_vars

(***************************************************************************)
(* GameGUI: the order pool, accepting, rejecting and delivering.  An Order *)
(* object is told from the others by its order_id; accept_order stores the *)
(* text of OrderStatus.ACCEPTED in its status.                             *)
(***************************************************************************)
OrderStatuses == {"AVAILABLE", "ACCEPTED", "PICKED_UP", "DELIVERED", "CANCELLED"}

\* the Order generate_order built, with its identity and the default status
new_order(order_id, generated) ==
    [ order_id |-> order_id, status |-> "AVAILABLE" ] @@ generated

\* draws[i] is what the generator drew for the i-th order; a raised
\* exception leaves the loop with the orders appended so far
refresh_orders(weather, current_hour, draws, first_id) ==
    LET made == [ i \in 1..Len(draws) |->
                    generate_order(weather, current_hour, draws[i].pickup,
                                   draws[i].delivery, draws[i].customer_type,
                                   draws[i].priority, draws[i].distance_km) ]
    IN  IF \E i \in 1..Len(made) : made[i].raised # "none" THEN <<>>
        ELSE [ i \in 1..Len(made) |-> new_order(first_id + i - 1, made[i].order[1]) ]

InPool(order) ==
    \E i \in 1..Len(available_orders) : available_orders[i].order_id = order.order_id

\* a mutation of apply_delivery_result: the experience over 100 is carried over
apply_delivery_result_carry_over(gs, result) ==
    LET paid == [ gs EXCEPT !.delivery_coins = @ + result.earnings,
                            !.successful_deliveries = @ + 1,
                            !.total_earnings = @ + result.earnings,
                            !.total_tips = @ + result.tip,
                            !.experience = @ + result.experience_gained ]
    IN  IF paid.experience >= 100
        THEN [ paid EXCEPT !.level = @ + 1, !.experience = @ - 100 ]
        ELSE paid

\* start_delivery's update of the game state after a successful delivery
apply_delivery_result(gs, result) ==
    LET paid == [ gs EXCEPT !.delivery_coins = @ + result.earnings,
                            !.successful_deliveries = @ + 1,
                            !.total_earnings = @ + result.earnings,
                            !.total_tips = @ + result.tip,
                            !.experience = @ + result.experience_gained ]
    IN  IF paid.experience >= 100
        THEN [ paid EXCEPT !.level = @ + 1, !.experience = 0 ]
        ELSE paid

OrderFrame ==
    UNCHANGED <<refs, pfVars, lotVars, expVars, now, savefile, concVars, extVars, timeVars>>

\* the refresh button; also the last step of reject_order and accept_order
RefreshOrders(current_hour, draws) ==
    /\ available_orders' =
           refresh_orders(heap[session_gs].weather, current_hour, draws, next_order_id)
    /\ next_order_id' = next_order_id + Len(available_orders')
    /\ UNCHANGED <<heap, selected_order, resolved_orders, delVars, talkVars>>
    /\ OrderFrame

\* on_order_select of the i-th row of the list
SelectOrder(i) ==
    /\ i \in 1..Len(available_orders)
    /\ selected_order' = << available_orders[i] >>
    /\ UNCHANGED <<heap, available_orders, resolved_orders, next_order_id, delVars, talkVars>>
    /\ OrderFrame

\* the player confirmed; list.remove raises ValueError for an order that is
\* not in the pool, and the handler ends there
RejectOrder(current_hour, draws) ==
    /\ selected_order # <<>>
    /\ IF InPool(selected_order[1])
       THEN /\ selected_order' = <<>>
            /\ available_orders' = refresh_orders(heap[session_gs].weather, current_hour,
                                                  draws, next_order_id)
            /\ next_order_id' = next_order_id + Len(available_orders')
       ELSE UNCHANGED <<selected_order, available_orders, next_order_id>>
    /\ UNCHANGED <<heap, resolved_orders, delVars, talkVars>>
    /\ OrderFrame

AcceptOrder(current_hour, draws) ==
    /\ selected_order # <<>>
    /\ heap[session_gs].stamina >= 20
    /\ selected_order' = << [ selected_order[1] EXCEPT !.status = "ACCEPTED" ] >>
    /\ IF InPool(selected_order[1])
       THEN /\ available_orders' = refresh_orders(heap[session_gs].weather, current_hour,
                                                  draws, next_order_id)
            /\ next_order_id' = next_order_id + Len(available_orders')
       ELSE UNCHANGED <<available_orders, next_order_id>>
    /\ UNCHANGED <<heap, resolved_orders, delVars, talkVars>>
    /\ OrderFrame

\* rolls are the simulator's random draws, pick and phrase the interaction's
StartDelivery(rolls, pick, phrase) ==
    /\ selected_order # <<>>
    /\ selected_order[1].status = "ACCEPTED"
    /\ PossibleRolls(heap[sim_gs], selected_order[1], rolls)
    /\ LET order == selected_order[1]
           r == simulate_delivery(heap[sim_gs], order, rolls)
           simulated == [ heap EXCEPT ![sim_gs] = r.gs ]
           applied == [ simulated EXCEPT
                          ![session_gs] = apply_delivery_result(@, r.result) ]
           talked == interact_with_customer(dialogue_mode, applied[cust_gs],
                         interaction_history, order.customer_type,
                         "delivered_normally", pick, phrase)
       IN  /\ del_result' = r.result
           /\ del_drawn' = r.drawn
           /\ IF r.result.success
              THEN /\ heap' = [ applied EXCEPT ![cust_gs] = talked.gs ]
                   /\ interaction_history' = talked.history
                   /\ interactions' = interactions + 1
              ELSE /\ heap' = simulated
                   /\ UNCHANGED <<interaction_history, interactions>>
           /\ resolved_orders' = Append(resolved_orders, order)
    /\ selected_order' = <<>>
    /\ UNCHANGED <<available_orders, next_order_id, dialogue_mode>>
    /\ OrderFrame

(***************************************************************************)
(* Specification of the order pool and the deliveries                      *)
(***************************************************************************)
MaxOrders == 15

OrderDraw(pickup, delivery, customer_type, priority, distance_km) ==
    [ pickup |-> pickup, delivery |-> delivery, customer_type |-> customer_type,
      priority |-> priority, distance_km |-> distance_km ]

\* what the generator draws in a refresh: five orders, the fewest it makes
PoolDraws ==
    { << OrderDraw("ANT_NEST", "ANT_NEST", "PROGRAMMER_SHY", "S", 5),
         OrderDraw("ANT_NEST", "JADE_BAY", "NORMAL", "A", 20),
         OrderDraw("WUTONG_LANE", "WUTONG_LANE", "VIP", "D", 12),
         OrderDraw("STARTUP_PARK", "ANT_NEST", "RICH_IMPATIENT", "S", 47),
         OrderDraw("JADE_BAY", "JADE_BAY", "DIFFICULT_ELDERLY", "D", 20) >> }

FlowHours == {10}

FlowRolls ==
    { r \in Rolls : ~r.food /\ ~r.battery /\ ~r.bonus /\ r.tip_amount \in {0, Cents(2)} }

\* a new player, a player three deliveries into the game, and a tired player
FlowPlayers ==
    { NewGameState,
      [ NewGameState EXCEPT !.experience = 95, !.successful_deliveries = 3,
                            !.five_star_ratings = 3, !.credit_score = 103,
                            !.delivery_coins = Cents(160),
                            !.total_earnings = Cents(60) ],
      [ NewGameState EXCEPT !.stamina = 10 ] }

\* GameGUI.__init__ ends with a first refresh_orders
InitFlow ==
    /\ \E gs \in FlowPlayers : heap = <<gs>>
    /\ \E draws \in PoolDraws, h \in FlowHours :
           available_orders = refresh_orders("SUNNY", h, draws, 1)
    /\ next_order_id = Len(available_orders) + 1
    /\ selected_order = <<>>
    /\ resolved_orders = <<>>
    /\ InitTalk /\ InitTime
    /\ now = 0
    /\ InitFile
    /\ thread = [ t \in Threads |-> IdleThread ]
    /\ detached = <<>>
    /\ conc0 = [ pf |-> NewPortfolio, market |-> <<>> ]
    /\ InitExt
    /\ InitRefs /\ InitPf /\ InitDel /\ InitLot /\ InitExp

CanRefresh == next_order_id + 5 <= MaxOrders + 1

NextFlow ==
    \/ \E h \in FlowHours, draws \in PoolDraws : CanRefresh /\ RefreshOrders(h, draws)
    \/ \E i \in 1..5 : SelectOrder(i)
    \/ \E h \in FlowHours, draws \in PoolDraws : CanRefresh /\ RejectOrder(h, draws)
    \/ \E h \in FlowHours, draws \in PoolDraws : CanRefresh /\ AcceptOrder(h, draws)
    \/ \E rolls \in FlowRolls, pick \in Picks, phrase \in fallback_phrases :
           StartDelivery(rolls, pick, phrase)
    \/ \E mode \in DialogueModes : SetDialogueMode(mode)

SpecFlow == InitFlow /\ [][NextFlow]_vars

(***************************************************************************)
(* GameGUI: buying a lottery ticket and repaying debt                      *)
(***************************************************************************)
\* the prize LotterySystem.buy_lottery pays for the drawn matches
lottery_prize(lottery_type, first, second, scratch_prize) ==
    CASE lottery_type = "DOUBLE_COLOR_BALL" ->
           calculate_double_color_ball_prize(first, second = 1, consecutive_losses)
      [] lottery_type = "SUPER_LOTTO" -> calculate_super_lotto_prize(first, second)
      [] lottery_type = "SCRATCH_CARD" -> scratch_prize

\* the balance check comes first; the prices are those of LotteryPrice
BuyLottery(lottery_type, first, second, scratch_prize) ==
    LET price == LotteryPrice(lottery_type)
        prize == lottery_prize(lottery_type, first, second, scratch_prize)
    IN  /\ heap[session_gs].delivery_coins >= price
        /\ heap' = [ heap EXCEPT ![session_gs].delivery_coins = @ - price + prize ]
        /\ consecutive_losses' =
               IF lottery_type = "DOUBLE_COLOR_BALL"
               THEN next_consecutive_losses(prize, consecutive_losses)
               ELSE consecutive_losses
        /\ lot_result' = LotteryResult(lottery_type, prize, first, second,
                                       consecutive_losses)
        /\ lot_log' = LogPlay(prize)
        /\ UNCHANGED <<refs, pfVars, delVars, expVars, now, savefile, concVars, extVars,
                       guiVars>>

\* a mutation of debt_payment_refused: the balance is not compared
debt_payment_refused_only_invalid(gs, amount) == amount <= 0

\* confirm_payment shows an error and returns
debt_payment_refused(gs, amount) ==
    amount <= 0 \/ amount > gs.delivery_coins

pay_debt(gs, amount) ==
    IF debt_payment_refused(gs, amount) THEN gs
    ELSE LET paid == IF amount > gs.debt THEN gs.debt ELSE amount
         IN  [ gs EXCEPT !.delivery_coins = @ - paid, !.debt = @ - paid ]

\* the amount typed into the dialog, as a number
PayDebt(amount) ==
    /\ heap' = [ heap EXCEPT ![session_gs] = pay_debt(@, amount) ]
    /\ UNCHANGED <<refs, pfVars, delVars, lotVars, expVars, now, savefile, concVars,
                   extVars, guiVars>>

(***************************************************************************)
(* Specification of the debits of the balance                              *)
(***************************************************************************)
MaxPlays == 2

\* a player who has repaid most of the debt, with 250.00 or 50.00 left
DebitBalances == {Cents(1), Cents(100), Cents(4700)}
DebitDebts == {Cents(50), Cents(250)}
DebitSymbols == {"000001"}
DebitPrices == {Cents(30)}
DebitLeverages == {1, 5}
DebitCourses == {"TRAFFIC_SAFETY"}
DebitAmounts == {0 - Cents(10), Cents(100), Cents(10000)}

\* tickets that win nothing: a prize only adds to the balance
LosingTickets ==
    { <<"DOUBLE_COLOR_BALL", 0, 0, 0>>, <<"SUPER_LOTTO", 1, 0, 0>>,
      <<"SCRATCH_CARD", 0, 0, 0>> }

InitDebits ==
    /\ \E b \in DebitBalances, debt \in DebitDebts :
           heap = <<[ NewGameState EXCEPT !.delivery_coins = b, !.debt = debt ]>>
    /\ InitRefs /\ InitPf /\ InitDel /\ InitLot /\ InitExp /\ InitEnv

NextDebits ==
    \/ \E s \in DebitSymbols, n \in ShareCounts, p \in DebitPrices, l \in DebitLeverages :
           BuyStock(s, n, p, l) /\ Bounded
    \/ \E c \in DebitCourses : EnrollCourse(c)
    \/ ProcessMonthlyPayment(FALSE, 0) /\ BillingBounded
    \/ now + billing_period_days <= MaxDay /\ AdvanceClock(billing_period_days)
    \/ \E t \in LosingTickets :
           lot_log < MaxPlays /\ BuyLottery(t[1], t[2], t[3], t[4])
    \/ \E amount \in DebitAmounts : PayDebt(amount)

SpecDebits == InitDebits /\ [][NextDebits]_vars

(***************************************************************************)
(* game_loop: the iterations of the tick thread                            *)
(***************************************************************************)
\* update_game_state after update_positions returned
end_of_tick(gs) ==
    [ gs EXCEPT !.stamina = IF gs.fatigue_level > 80 THEN Max(0, @ - 1) ELSE @,
                !.current_time = now ]

\* the end of an iteration, time.sleep(1), and update_prices of the next one
TickAgain(market) ==
    /\ thread["tick"].pc = "done"
    /\ heap' = [ heap EXCEPT ![session_gs] = end_of_tick(@) ]
    /\ thread' = [ thread EXCEPT !["tick"].pc = "start" ]
    /\ conc0' = [ conc0 EXCEPT !.market = market ]
    /\ UNCHANGED <<refs, pfVars, delVars, lotVars, expVars, now, savefile, detached,
                   extVars, guiVars>>

\* except Exception: the error is printed and break leaves the while loop
LoopBreak ==
    /\ thread["tick"].pc = "crashed"
    /\ Goto("tick", "stopped")
    /\ UNCHANGED <<heap, pfVars, detached>>
    /\ ConcFrame

(***************************************************************************)
(* Specification of the running game loop against one user command.  The   *)
(* tick thread is a daemon thread the scheduler keeps running: a step it   *)
(* can take is eventually taken.                                           *)
(***************************************************************************)
TickStep ==
    \/ TickStart \/ TickPrices \/ TickSnapshot \/ TickMargin \/ TickLiqLog
    \/ SellCheck("tick") \/ SellFetch("tick") \/ SellUpdate("tick")
    \/ SellSharesWrite("tick") \/ SellCreditRead("tick") \/ SellCreditWrite("tick")
    \/ \E m \in ConcMarkets : TickAgain(m)
    \/ LoopBreak

NextLoop ==
    \/ NextConc
    \/ \E m \in ConcMarkets : TickAgain(m)
    \/ LoopBreak

SpecLoop == InitConc /\ [][NextLoop]_vars /\ WF_vars(TickStep)

(***************************************************************************)
(* Claims about the portfolio                                              *)
(***************************************************************************)
coins == heap[pf_gs].delivery_coins

PortfolioUnchanged ==
    /\ heap' = heap
    /\ stock_positions' = stock_positions
    /\ transaction_history' = transaction_history

\* C4: a portfolio operation that fails validation (a buy with leverage over
\* 5 or with shares*price/leverage over the balance, a sell of a symbol
\* without position or of more shares than held) returns success = false
\* and leaves the balance, the positions and the history unchanged.
C4_FailedValidationHasNoEffect ==
    [][ /\ \A s \in Symbols, n \in ShareCounts, p \in Prices, l \in Leverages :
              ((l > 5 \/ n * p > l * coins) /\ BuyStock(s, n, p, l))
                  => (~pf_result'.success /\ PortfolioUnchanged)
        /\ \A s \in Symbols, n \in SellCounts, p \in Prices :
              ((~HasPos(stock_positions, s) \/ n > PosOf(stock_positions, s).shares)
                 /\ SellStock(s, n, p))
                  => (~pf_result'.success /\ PortfolioUnchanged)
      ]_vars

\* a buy the balance cannot pay was refused while a position is held
C4_Witness ==
    /\ pf_result.op = "buy" /\ ~pf_result.success
    /\ pf_result.message = "insufficient_funds"
    /\ Len(stock_positions) >= 1
    /\ Len(transaction_history) >= 1

\* the claim's (avgCost - currentPrice) / avgCost >= 0.30
LossFractionAtLeast30(avg_cost, current_price) ==
    /\ avg_cost[1] > 0
    /\ 10 * (avg_cost[1] - current_price * avg_cost[2]) >= 3 * avg_cost[1]

JustBought(s, n, p) ==
    /\ pf_result.op = "buy" /\ pf_result.success
    /\ Len(transaction_history) > 0
    /\ Last(transaction_history).action = "buy"
    /\ Last(transaction_history).symbol = s
    /\ Last(transaction_history).shares = n
    /\ Last(transaction_history).price = p
    /\ HasPos(stock_positions, s)
    /\ PosOf(stock_positions, s).shares = n

\* C6: a buy of a symbol without position followed by a sell of the same
\* shares at the same price reports profit 0, leaves no position in the
\* symbol and returns the balance to its value before the buy.
C6_RoundTripRestoresBalance ==
    [][ \A s \in Symbols, n \in ShareCounts, p \in Prices :
          (JustBought(s, n, p) /\ SellStock(s, n, p)) =>
              /\ pf_result'.success
              /\ pf_result'.profit = <<0>>
              /\ ~HasPos(stock_positions', s)
              /\ coins' = coins + Last(transaction_history).amount
      ]_vars

\* C7: a buy into an existing position adds the shares and sets the average
\* cost to (oldCost*oldShares + price*newShares) / totalShares, in one
\* position per symbol; 10 at 100 and then 10 at 200 give 20 shares at 150.
C7_WeightedAverageCost ==
    [][ \A s \in Symbols, n \in TradeShares, p \in TradePrices, l \in TradeLeverages :
          (HasPos(stock_positions, s) /\ pf_result'.success /\ BuyStock(s, n, p, l)) =>
              LET old == PosOf(stock_positions, s)
                  new == PosOf(stock_positions', s)
                  total == old.shares + n
              IN  /\ new.shares = total
                  /\ new.avg_cost[1] * old.avg_cost[2] * total
                       = new.avg_cost[2]
                           * (old.avg_cost[1] * old.shares + p * n * old.avg_cost[2])
                  /\ Cardinality({ i \in 1..Len(stock_positions') :
                                     stock_positions'[i].symbol = s }) = 1
                  /\ (old.shares = 10 /\ old.avg_cost = <<Cents(100), 1>>
                        /\ n = 10 /\ p = Cents(200))
                       => (new.shares = 20 /\ new.avg_cost = <<Cents(150), 1>>)
      ]_vars

\* 10 shares at 100 and 10 shares at 200 were bought: 20 shares at 150
C7_Witness ==
    /\ Len(transaction_history) = 2
    /\ transaction_history[1].action = "buy" /\ transaction_history[2].action = "buy"
    /\ transaction_history[1].shares = 10 /\ transaction_history[1].price = Cents(100)
    /\ transaction_history[2].shares = 10 /\ transaction_history[2].price = Cents(200)
    /\ Len(stock_positions) = 1
    /\ stock_positions[1].shares = 20
    /\ stock_positions[1].avg_cost = <<Cents(150), 1>>

\* C8: at leverage 1 a successful buy debits shares*price, a successful sell
\* credits shares*sellPrice and reports the profit (sellPrice - avgCost)*shares
\* (to the cent); from balance 100, 10 shares at 5 leave balance 50 and the
\* position {10, 5}, and selling the 10 at 8 gives balance 130, profit 30
\* and no position.
C8_LeverageOneTrades ==
    [][ /\ \A s \in Symbols, n \in TradeShares, p \in TradePrices :
              (pf_result'.success /\ BuyStock(s, n, p, 1)) => coins' = coins - n * p
        /\ \A s \in Symbols, n \in TradeShares, p \in TradePrices :
              (HasPos(stock_positions, s) /\ PosOf(stock_positions, s).leverage = 1
                 /\ pf_result'.success /\ SellStock(s, n, p)) =>
                  LET avg == PosOf(stock_positions, s).avg_cost
                      sold == Last(transaction_history').profit
                      told == pf_result'.profit[1]
                  IN  /\ coins' = coins + n * p
                      /\ sold[1] * avg[2] = sold[2] * (p * avg[2] - avg[1]) * n
                      /\ 2 * Abs(told * sold[2] - sold[1]) <= sold[2]
        /\ \A s \in Symbols :
              (coins = Cents(100) /\ stock_positions = <<>>
                 /\ BuyStock(s, 10, Cents(5), 1)) =>
                  /\ pf_result'.success
                  /\ coins' = Cents(50)
                  /\ stock_positions' = << [ symbol |-> s, shares |-> 10,
                         avg_cost |-> <<Cents(5), 1>>, current_price |-> Cents(5),
                         leverage |-> 1 ] >>
        /\ \A s \in Symbols :
              (coins = Cents(50) /\ Len(stock_positions) = 1
                 /\ JustBought(s, 10, Cents(5))
                 /\ PosOf(stock_positions, s).leverage = 1
                 /\ SellStock(s, 10, Cents(8))) =>
                  /\ pf_result'.success
                  /\ coins' = Cents(130)
                  /\ pf_result'.profit = <<Cents(30)>>
                  /\ stock_positions' = <<>>
      ]_vars

\* the scenario's end: bought 10 at 5 from balance 100, sold 10 at 8
C8_Witness ==
    /\ coins = Cents(130)
    /\ stock_positions = <<>>
    /\ pf_result.op = "sell" /\ pf_result.profit = <<Cents(30)>>
    /\ Len(transaction_history) = 2
    /\ transaction_history[1].action = "buy" /\ transaction_history[1].leverage = 1
    /\ transaction_history[1].shares = 10 /\ transaction_history[1].price = Cents(5)
    /\ transaction_history[2].action = "sell"
    /\ transaction_history[2].shares = 10 /\ transaction_history[2].price = Cents(8)

(***************************************************************************)
(* Claims about the delivery simulator (under SpecDelivery)                *)
(***************************************************************************)
HasAccident(result) ==
    \E i \in 1..Len(result.events) : result.events[i].type = "accident"

\* C1: a simulate_delivery call whose event list holds an accident returns
\* success false, earnings 0, tip 0 and complaint false, draws neither the tip
\* roll nor the complaint roll, and leaves the player's credit_score and
\* five_star_ratings as they were, for every order and player state.  (A step
\* that changes only the player state and the delivery result is a
\* simulate_delivery call, and del_result' is what it returned.)
C1_AccidentShortCircuits ==
    [][ ( /\ HasAccident(del_result')
          /\ UNCHANGED <<refs, pfVars, lotVars, expVars, now, savefile>> ) =>
              /\ ~del_result'.success
              /\ del_result'.earnings = 0
              /\ del_result'.tip = 0
              /\ ~del_result'.complaint
              /\ del_drawn' \cap {"tip", "tip_amount", "complaint"} = {}
              /\ heap'[sim_gs].credit_score = heap[sim_gs].credit_score
              /\ heap'[sim_gs].five_star_ratings = heap[sim_gs].five_star_ratings
      ]_vars

\* an accident on the delivery after a five-star one, with other events around it
C1_Witness ==
    /\ HasAccident(del_result)
    /\ Len(del_result.events) >= 3
    /\ ~del_result.success
    /\ heap[sim_gs].five_star_ratings > 0

(***************************************************************************)
(* Claims about the session (under SpecSession)                            *)
(***************************************************************************)
\* C3: after any sequence of session commands, the delivery simulator, the
\* customer interaction system, the portfolio and the expense manager all refer
\* to the player state that is the session's current game_state.
C3_OnePlayerState ==
    /\ sim_gs = session_gs
    /\ cust_gs = session_gs
    /\ pf_gs = session_gs
    /\ exp_gs = session_gs

(***************************************************************************)
(* Claims about the monthly billing (under SpecExpenses)                   *)
(***************************************************************************)
BillingNoOp ==
    /\ ~exp_result'.processed
    /\ UNCHANGED <<heap, monthly_rent, last_payment_date>>

\* C9 as stated: process_monthly_payment is a no-op whenever fewer than 30
\* days have passed since the last billing that succeeded or was attempted.
C9_NoOpSinceLastAttempt ==
    [][ \A roll \in BOOLEAN, rate \in RentRates :
          ( /\ now - billing_log.attempt_at < billing_period_days
            /\ ProcessMonthlyPayment(roll, rate) ) => BillingNoOp
      ]_vars

\* C9, amended: process_monthly_payment is a no-op exactly when fewer than 30
\* days have passed since the last successful billing (or since the manager
\* was created); a failed or rent-raising attempt does not restart the 30 days.
C9_NoOpSinceLastSuccess ==
    [][ \A roll \in BOOLEAN, rate \in RentRates :
          ProcessMonthlyPayment(roll, rate) =>
              IF now - billing_log.success_at < billing_period_days
              THEN BillingNoOp
              ELSE exp_result'.processed
      ]_vars

\* a check a day after a successful billing was skipped
C9_Witness ==
    /\ billing_log.success_at >= billing_period_days
    /\ now > billing_log.success_at
    /\ now - billing_log.success_at < billing_period_days
    /\ ~exp_result.processed

(***************************************************************************)
(* Claims about the lottery (under SpecLottery)                            *)
(***************************************************************************)
\* C10: in the Double-Color-Ball prize calculation 6 red matches with the blue
\* match pay exactly 5,000,000, and no red match without the blue match pays
\* exactly 0, whatever the consecutive-loss counter is.
C10_JackpotAndBlankAreFixed ==
    /\ calculate_double_color_ball_prize(6, TRUE, consecutive_losses) = Cents(5000000)
    /\ calculate_double_color_ball_prize(0, FALSE, consecutive_losses) = 0
    /\ lot_result.type = "DOUBLE_COLOR_BALL" =>
         /\ (lot_result.first = 6 /\ lot_result.second = 1)
               => lot_result.prize = Cents(5000000)
         /\ (lot_result.first = 0 /\ lot_result.second = 0)
               => lot_result.prize = 0

\* the jackpot drawn after a streak of losses
C10_Witness ==
    /\ lot_result.type = "DOUBLE_COLOR_BALL"
    /\ lot_result.first = 6 /\ lot_result.second = 1
    /\ lot_result.streak >= 2
    /\ lot_result.prize = Cents(5000000)

(***************************************************************************)
(* Claims about the tick thread and a user command (under SpecConc)        *)
(***************************************************************************)
Finished ==
    /\ thread["tick"].pc \in {"done", "crashed"}
    /\ thread["user"].pc \in {"done", "raised"}

UserCommand(pf) ==
    LET me == thread["user"] IN
    IF me.op = "buy"
    THEN buy_stock(pf, me.symbol, me.shares, me.price, me.leverage).pf
    ELSE sell_stock(pf, me.symbol, me.shares, me.price).pf

\* the balance and the set of positions of a portfolio
Outcome(pf) ==
    [ coins |-> pf.coins,
      positions |-> { [ symbol |-> pf.positions[k].symbol,
                        shares |-> pf.positions[k].shares,
                        avg_cost |-> pf.positions[k].avg_cost,
                        leverage |-> pf.positions[k].leverage ] :
                      k \in 1..Len(pf.positions) } ]

SerialOutcomes ==
    { Outcome(UserCommand(update_positions(conc0.pf, conc0.market))),
      Outcome(update_positions(UserCommand(conc0.pf), conc0.market)) }

\* C2: however the tick thread's update_positions (with its margin-call
\* liquidation) interleaves with a user's buy_stock or sell_stock, the final
\* balance and set of positions are those of one of the two serial orders.
C2_Serializable ==
    Finished => Outcome(Portfolio) \in SerialOutcomes

(***************************************************************************)
(* Claims about the order generator (under SpecOrders)                     *)
(***************************************************************************)
\* C11: every order generate_order produces, whatever its priority tier,
\* customer type and districts, has a complaint probability between 0 and
\* 0.9 and a tip probability between 0 and 0.8.
C11_ProbabilitiesAreCapped ==
    gen_result.order # <<>> =>
        /\ 0 <= gen_result.order[1].complaint_probability
        /\ gen_result.order[1].complaint_probability <= 9000
        /\ 0 <= gen_result.order[1].tip_probability
        /\ gen_result.order[1].tip_probability <= 8000

\* an S order of an impatient customer: 0.7 * 1.5 is over the cap
C11_Witness ==
    /\ gen_result.order # <<>>
    /\ gen_result.order[1].priority = "S"
    /\ gen_result.order[1].customer_type = "RICH_IMPATIENT"
    /\ gen_result.order[1].complaint_probability = 9000

\* C14: generate_order returns an Order, and never raises, for every weather
\* of the enumeration, SNOWY included, and every hour from 0 to 23.
C14_GenerateOrderNeverRaises ==
    gen_result.called => gen_result.raised = "none" /\ gen_result.order # <<>>

(***************************************************************************)
(* Claims about the night school (under SpecSchool)                        *)
(***************************************************************************)
\* the study schedule as it was after its first n sessions
ScheduleAt(n) == SubSeq(study_schedule, 1, n)

\* C12: for a fixed course and fixed skill levels the exam pass probability
\* does not decrease when the average effectiveness of the course's study
\* sessions increases, and it always lies between 0.1 and 0.95.  The
\* schedules compared are the ones the school went through, at the player's
\* current skill levels.
C12_PassProbabilityMonotone ==
    /\ \A c \in CourseTypes : \A m, n \in 0..Len(study_schedule) :
         LET gs == heap[session_gs]
             less == calculate_pass_probability(c, gs, ScheduleAt(m))
             more == calculate_pass_probability(c, gs, ScheduleAt(n))
         IN  /\ FracLeq(<<1000, 1>>, more) /\ FracLeq(more, <<9500, 1>>)
             /\ FracLeq(avg_effectiveness(ScheduleAt(m), c),
                        avg_effectiveness(ScheduleAt(n), c))
                  => FracLeq(less, more)
    /\ school_result.pass_probability # <<>> =>
         /\ FracLeq(<<1000, 1>>, school_result.pass_probability[1])
         /\ FracLeq(school_result.pass_probability[1], <<9500, 1>>)

\* a failed exam reported its pass probability, and along the schedule the
\* course's average effectiveness and pass probability both went down
C12_Witness ==
    /\ school_result.message = "failed"
    /\ school_result.pass_probability # <<>>
    /\ \E m, n \in 1..Len(study_schedule) :
         LET c == school_result.course
             gs == heap[session_gs]
         IN  /\ ~FracLeq(avg_effectiveness(ScheduleAt(n), c),
                         avg_effectiveness(ScheduleAt(m), c))
             /\ ~FracLeq(calculate_pass_probability(c, gs, ScheduleAt(n)),
                         calculate_pass_probability(c, gs, ScheduleAt(m)))

\* the level of a skill, an absent one counting as level 0
SkillLevel(gs, skill) == IF skill \in DOMAIN gs THEN gs[skill] ELSE 0

\* a step of SpecSchool that is a take_exam call
ExamStep == school_result'.op = "exam" /\ UNCHANGED study_schedule

\* C18: a passed take_exam adds every entry of the course's skill-bonus
\* vector to the player's level of that skill; a failed or refused exam
\* changes no attribute.
C18_PassedExamAddsEveryBonus ==
    [][ ExamStep =>
          IF school_result'.passed
          THEN \A skill \in DOMAIN courses[school_result'.course].skill_bonuses :
                   SkillLevel(heap'[session_gs], skill)
                     = SkillLevel(heap[session_gs], skill)
                         + courses[school_result'.course].skill_bonuses[skill]
          ELSE heap' = heap ]_vars

(***************************************************************************)
(* Claims about saving and loading (under SpecSave)                        *)
(***************************************************************************)
\* the fields to_dict writes
SavedFields == DOMAIN NewGameState \ {"is_online"}

\* C13: load_game on a snapshot save_game wrote restores every saved field
\* (name, time, weather, attributes, finances, equipment, stats, fatigue
\* level, location) to its saved value, the enum fields as members of their
\* enumerations, and returns True; on an absent file it returns False and
\* leaves every field of the state as it was.
C13_LoadRestoresSnapshot ==
    [][ LoadGame =>
          IF savefile = <<>>
          THEN ~load_result'.returned /\ heap' = heap
          ELSE /\ load_result'.returned
               /\ \A field \in SavedFields :
                      heap'[session_gs][field] = saved_gs[field]
               /\ heap'[session_gs].weather \in Weathers
               /\ heap'[session_gs].current_location \in Districts ]_vars

\* a load that put back a snapshot over a state whose weather, location,
\* time, balance and stamina were all different
C13_Witness ==
    /\ load_result.called /\ load_result.returned
    /\ \A field \in SavedFields : heap[session_gs][field] = saved_gs[field]
    /\ load_result.before.weather # saved_gs.weather
    /\ load_result.before.current_location # saved_gs.current_location
    /\ load_result.before.current_time # saved_gs.current_time
    /\ load_result.before.delivery_coins # saved_gs.delivery_coins
    /\ load_result.before.stamina # saved_gs.stamina

(***************************************************************************)
(* Claims about a due billing (under SpecExpenses)                         *)
(***************************************************************************)
\* C15: when a billing is due and the rent-increase branch fires, the same
\* call still bills the new total: the balance is reduced by it and the
\* billing clock reset, or, the balance being short, the credit-score
\* penalty is applied.
C15_RentIncreaseStillBills ==
    [][ ( /\ monthly_rent' # monthly_rent
          /\ exp_result'.rent_increased
          /\ payment_due(now, last_payment_date) ) =>
          LET total == expenses_total(monthly_rent')
              gs == heap[exp_gs]
          IN  IF gs.delivery_coins >= total
              THEN /\ heap'[exp_gs].delivery_coins = gs.delivery_coins - total
                   /\ last_payment_date' = now
              ELSE heap'[exp_gs].credit_score = gs.credit_score - credit_penalty
      ]_vars

\* C16: when a billing is due, the rent does not rise and the balance is
\* less than the expense total, process_monthly_payment lowers credit_score
\* by exactly 20 and leaves the balance, the debt and the billing clock as
\* they were, so that the billing is still due and the next such check
\* applies the penalty again.
C16_ShortBalanceIsPenalised ==
    [][ \A rate \in RentRates :
          ( /\ payment_due(now, last_payment_date)
            /\ heap[exp_gs].delivery_coins < expenses_total(monthly_rent)
            /\ ProcessMonthlyPayment(FALSE, rate) ) =>
              /\ heap'[exp_gs].credit_score = heap[exp_gs].credit_score - 20
              /\ heap'[exp_gs].delivery_coins = heap[exp_gs].delivery_coins
              /\ heap'[exp_gs].debt = heap[exp_gs].debt
              /\ last_payment_date' = last_payment_date
              /\ payment_due(now', last_payment_date')
              /\ exp_result'.processed /\ ~exp_result'.success
      ]_vars

\* the penalty was applied a second time: two checks of one unpaid billing
C16_Witness ==
    /\ exp_result.processed /\ ~exp_result.success /\ ~exp_result.rent_increased
    /\ heap[exp_gs].credit_score = NewGameState.credit_score - 2 * credit_penalty
    /\ heap[exp_gs].delivery_coins < expenses_total(monthly_rent)
    /\ heap[exp_gs].debt = NewGameState.debt
    /\ payment_due(now, last_payment_date)

(***************************************************************************)
(* Claims about the loss streak of the lottery (under SpecLottery)         *)
(***************************************************************************)
\* C17: after any sequence of lottery plays the consecutive-loss counter is
\* the number of non-winning plays since the most recent winning play, and
\* the prize of a non-jackpot double-colour-ball tier is the tier's base
\* prize times (1 + 0.1 * the counter before that play), the two jackpot
\* tiers being paid unmultiplied.
C17_CounterCountsLossesSinceWin ==
    /\ consecutive_losses = lot_log
    /\ lot_result.type = "DOUBLE_COLOR_BALL" =>
         LET base == calculate_double_color_ball_prize(lot_result.first,
                                                       lot_result.second = 1, 0)
         IN  IF lot_result.first = 6
             THEN lot_result.prize = base
             ELSE 10 * lot_result.prize = base * (10 + lot_result.streak)

\* C17, amended: the counter counts the non-winning double-colour-ball plays
\* since the last winning double-colour-ball play (such a play resets it to 0
\* when it wins and adds 1 when it does not), a super-lotto or scratch-card
\* play leaves it as it was whether it wins or not, and the non-jackpot
\* double-colour-ball prizes are the base prize times (1 + 0.1 * the counter
\* before the play), the two jackpots being paid unmultiplied.
C17_DoubleColorBallStreak ==
    /\ lot_result.type = "DOUBLE_COLOR_BALL" =>
         /\ consecutive_losses = IF lot_result.prize > 0 THEN 0
                                 ELSE lot_result.streak + 1
         /\ LET base == calculate_double_color_ball_prize(lot_result.first,
                                                          lot_result.second = 1, 0)
            IN  IF lot_result.first = 6
                THEN lot_result.prize = base
                ELSE 10 * lot_result.prize = base * (10 + lot_result.streak)
    /\ lot_result.type # "DOUBLE_COLOR_BALL" => consecutive_losses = lot_result.streak

\* five red balls drawn after two losing double-colour-ball plays pay 240,
\* although another game was won in between
C17_Witness ==
    /\ lot_result.type = "DOUBLE_COLOR_BALL"
    /\ lot_result.first = 5 /\ lot_result.second = 0
    /\ lot_result.streak = 2
    /\ lot_result.prize = Cents(240)
    /\ consecutive_losses = 0

(***************************************************************************)
(* Claims about enrolments (under SpecEnrol) and careers (under SpecCareer)*)
(***************************************************************************)
\* every skill of the map is at the required level, an absent one counting 0
MeetsLevels(gs, requirements) ==
    \A skill \in DOMAIN requirements : SkillLevel(gs, skill) >= requirements[skill]

\* C19: enroll_course succeeds exactly when every skill of the course's
\* prerequisite map is at the required level (an absent skill counting as
\* level 0) and the balance covers the cost; a success debits exactly the
\* cost and a failure leaves the balance as it was.
C19_EnrolIffPrerequisitesAndFunds ==
    [][ school_result'.op = "enroll" =>
          LET course == courses[school_result'.course]
              gs == heap[session_gs]
          IN  /\ school_result'.success <=>
                   /\ MeetsLevels(gs, course.unlock_requirements)
                   /\ gs.delivery_coins >= course.cost
              /\ heap'[session_gs].delivery_coins =
                   IF school_result'.success
                   THEN gs.delivery_coins - course.cost
                   ELSE gs.delivery_coins ]_vars

\* C20: check_eligibility reports eligible exactly when every skill the
\* career requires is at the required level (an absent skill counting as
\* level 0); attempt_transition on an ineligible player returns not eligible
\* without a roll; neither call changes the player state.
C20_EligibleIffEveryRequirement ==
    [][ career_result'.op \in {"check", "attempt"} =>
          /\ career_result'.eligible <=>
               /\ career_result'.career \in Careers
               /\ MeetsLevels(heap[session_gs],
                              available_careers[career_result'.career].requirements)
          /\ ~career_result'.eligible => ~career_result'.rolled
          /\ heap' = heap ]_vars

(***************************************************************************)
(* Claims about the exam's study-time gate (under SpecSchool)              *)
(***************************************************************************)
RECURSIVE MinutesLogged(_, _)
\* the minutes of the first n logged sessions that are of the course
MinutesLogged(n, course_type) ==
    IF n = 0 THEN 0
    ELSE MinutesLogged(n - 1, course_type)
           + ( IF study_schedule[n].course_type = course_type
               THEN study_schedule[n].duration_minutes ELSE 0 )

\* C21: take_exam reaches the pass/fail roll exactly when the logged
\* sessions of that course, each capped at 180 minutes, add up to at least
\* the course's duration in minutes; the sessions of other courses do not
\* count, and a refused attempt returns the study-time result and changes
\* neither an attribute nor the study log.
C21_ExamNeedsStudyOfThatCourse ==
    [][ ExamStep =>
          LET course_type == school_result'.course
              studied == MinutesLogged(Len(study_schedule), course_type)
              required == courses[course_type].duration_hours * 60
          IN  /\ school_result'.message \in {"passed", "failed"}
                   <=> studied >= required
              /\ studied < required =>
                   /\ school_result'.message = "study_time"
                   /\ ~school_result'.success
                   /\ heap' = heap
              /\ \A k \in 1..Len(study_schedule) :
                     study_schedule[k].duration_minutes <= 180 ]_vars

\* an exam refused although the sessions of all courses together add up to
\* the course's duration, a session asked for 240 minutes counting 180
C21_Witness ==
    /\ school_result.op = "exam" /\ school_result.message = "study_time"
    /\ school_result.course = "TRAFFIC_SAFETY"
    /\ MinutesLogged(Len(study_schedule), "TRAFFIC_SAFETY") = 720
    /\ MinutesLogged(Len(study_schedule), "COMMUNICATION") = 180

(***************************************************************************)
(* Claims about the food-damage event (under SpecDelivery)                 *)
(***************************************************************************)
HasEvent(result, type) ==
    \E i \in 1..Len(result.events) : result.events[i].type = type

EventOf(result, type) ==
    result.events[CHOOSE i \in 1..Len(result.events) : result.events[i].type = type]

\* C22: when simulate_delivery draws the food-damage event (rain or storm,
\* no rain cover) and no accident, the earnings it returns are those of the
\* same order, tip and time bonus without the event, less half the base fee.
C22_FoodDamageCostsHalfBaseFee ==
    ( HasEvent(del_result, "food_damage") /\ del_result.success ) =>
        \A order \in DeliveryOrders :
            EventOf(del_result, "food_damage").cost = Frac(order.base_fee, 2) =>
                LET undamaged ==
                        order.base_fee + order.weather_bonus + order.peak_hour_bonus
                          + ( IF HasEvent(del_result, "time_bonus")
                              THEN EventOf(del_result, "time_bonus").bonus ELSE 0 )
                          + del_result.tip
                IN  del_result.earnings
                      = Round2(FracSub(<<undamaged, 1>>, Frac(order.base_fee, 2)))

(***************************************************************************)
(* Claims about the record of a forced liquidation (under SpecPortfolio)   *)
(***************************************************************************)
\* the number of history entries with the action, for the symbol
Entries(history, action, symbol) ==
    Cardinality({ i \in 1..Len(history) :
                    history[i].action = action /\ history[i].symbol = symbol })

\* C24: a valuation refresh adds, for every position it liquidates, exactly
\* one history entry with action 'liquidation' for the symbol and no entry
\* with action 'sell'; it adds nothing for a position it keeps.
C24_LiquidationIsNotLoggedAsSell ==
    [][ pf_result'.op = "update" =>
          \A s \in Symbols :
              LET liquidated == HasPos(stock_positions, s) /\ ~HasPos(stock_positions', s)
              IN  /\ Entries(transaction_history', "sell", s)
                        = Entries(transaction_history, "sell", s)
                  /\ Entries(transaction_history', "liquidation", s)
                        = Entries(transaction_history, "liquidation", s)
                            + (IF liquidated THEN 1 ELSE 0) ]_vars


(***************************************************************************)
(* Claims about the money of a round trip (under SpecPortfolio)            *)
(***************************************************************************)
\* the state right after a successful buy of n shares of s at price p
BoughtLast(s, n, p) ==
    /\ pf_result.op = "buy" /\ pf_result.success
    /\ Len(transaction_history) > 0
    /\ Last(transaction_history).action = "buy"
    /\ Last(transaction_history).symbol = s
    /\ Last(transaction_history).shares = n
    /\ Last(transaction_history).price = p
    /\ Last(transaction_history).leverage \in 1..max_leverage

\* C28: a successful buy_stock at a leverage from 1 to 5 followed at once by
\* a sell_stock of the same shares at the same price leaves a balance that
\* is not greater than the balance before the buy.
C28_RoundTripCreatesNoMoney ==
    [][ \A s \in Symbols, n \in ShareCounts, p \in Prices :
          (BoughtLast(s, n, p) /\ SellStock(s, n, p) /\ pf_result'.success) =>
              coins' <= coins + Last(transaction_history).amount
      ]_vars

(***************************************************************************)
(* Claims about the game clock (under SpecClock)                           *)
(***************************************************************************)
\* C25: after any sequence of update_time and advance_time calls the day
\* counter is 1 plus the number of midnights the game time has crossed and
\* the new-day callback was called once for each of them, and a call that
\* takes the game time over an hour boundary calls the hour-change callback.
C25_DayCounterCountsMidnights ==
    [][ /\ game_day' = 1 + crossed'.midnights
        /\ notified'.new_day = crossed'.midnights
        /\ crossed'.hours > crossed.hours => notified'.hour > notified.hour ]_vars

(***************************************************************************)
(* Claims about the interaction history (under SpecTalking)                *)
(***************************************************************************)
\* C26: every interact_with_customer call, in either mode and with or
\* without a catalog entry for the customer type and trigger, appends
\* exactly one record, so the history is as long as the number of calls.
C26_OneRecordPerInteraction ==
    Len(interaction_history) = interactions

(***************************************************************************)
(* Claims about the orders and the levels (under SpecFlow)                 *)
(***************************************************************************)
\* C23: an order in the pool is available; an accepted order is out of the
\* pool; start_delivery resolves accepted orders only, and an order it has
\* resolved is delivered or cancelled and is not resolved a second time.
C23_OrderLifecycle ==
    /\ \A i \in 1..Len(available_orders) : available_orders[i].status = "AVAILABLE"
    /\ selected_order # <<>> =>
          /\ selected_order[1].status \in {"AVAILABLE", "ACCEPTED"}
          /\ selected_order[1].status = "ACCEPTED" => ~InPool(selected_order[1])
    /\ \A i \in 1..Len(resolved_orders) :
          /\ resolved_orders[i].status \in {"DELIVERED", "CANCELLED"}
          /\ \A j \in 1..Len(resolved_orders) :
                 resolved_orders[i].order_id = resolved_orders[j].order_id => i = j

\* a step of start_delivery
DeliveryStep == Len(resolved_orders') = Len(resolved_orders) + 1

\* C27: experience stays in 0..99 and level at 1 or more; applying a
\* successful delivery result that brings experience to 100 or more adds
\* exactly 1 to level and sets experience to 0, any other leaves level as
\* it was and adds the experience gained; level never decreases.
C27_LevelUpResetsExperience ==
    [][ LET before == heap[session_gs]
            after == heap'[session_gs]
        IN  /\ after.experience \in 0..99
            /\ after.level >= 1
            /\ after.level >= before.level
            /\ (DeliveryStep /\ del_result'.success) =>
                 IF before.experience + del_result'.experience_gained >= 100
                 THEN after.level = before.level + 1 /\ after.experience = 0
                 ELSE /\ after.level = before.level
                      /\ after.experience
                           = before.experience + del_result'.experience_gained
      ]_vars

\* the player with 95 experience delivered a D order: 110 experience made
\* level 2 and experience 0
C27_Witness ==
    /\ del_result.success /\ del_result.experience_gained = 15
    /\ Len(resolved_orders) = 1
    /\ heap[session_gs].successful_deliveries = 4
    /\ heap[session_gs].level = 2
    /\ heap[session_gs].experience = 0

(***************************************************************************)
(* Claims about the debits of the balance (under SpecDebits)               *)
(***************************************************************************)
\* C30: after any sequence of buy_stock, enroll_course, monthly billing,
\* lottery purchase and debt repayment calls, made one at a time, the
\* delivery-coin balance is not negative.
C30_BalanceNeverNegative ==
    \A i \in 1..Len(heap) : heap[i].delivery_coins >= 0

\* the balance is exactly used up: the debt was repaid, courses were paid
\* and the last coins bought shares; the next enrolment was refused
C30_Witness ==
    /\ heap[session_gs].delivery_coins = 0
    /\ heap[session_gs].debt = 0
    /\ Len(transaction_history) >= 1
    /\ Last(transaction_history).amount = Cents(150)
    /\ school_result.op = "enroll" /\ school_result.message = "funds"

(***************************************************************************)
(* Claims about the running game loop (under SpecLoop)                     *)
(***************************************************************************)
\* C29: however the ticks interleave with a user's buy_stock or sell_stock,
\* the tick loop does not stop for good: it always starts another tick.
C29_LoopKeepsTicking ==
    []<>(thread["tick"].pc = "start")
====
